---- MODULE Spec2Model ----
(***************************************************************************)
(* Policy-understanding pipeline: the orchestrator's request state machine *)
(* (agents/orchestrator.py), the policy selector, the retrieval agent and  *)
(* the vector retriever, with the three language-model services and the    *)
(* embedding provider as external inputs.                                  *)
(*                                                                         *)
(* Conventions                                                             *)
(*  - A Python dict decoded from JSON is a record with a fixed field set;   *)
(*    a key that is not in the dict has the value Absent.                  *)
(*  - Python None is the string None; a None clarification question is the *)
(*    empty token sequence NoQuestion.                                     *)
(*  - An embedding is a unit vector at a multiple of 60 degrees, named by  *)
(*    its direction 0..5.  The squared L2 distance of two such vectors is  *)
(*    2 - 2 cos, one of 0, 1, 3, 4 (what faiss IndexFlatL2 returns).       *)
(*  - A similarity is kept in HALVES: the field similarity holds           *)
(*    2 * (1 - d/2) = 2 - d, so 2 is the code's 1.0 and 0 is its 0.0.      *)
(***************************************************************************)
EXTENDS Integers, Sequences, FiniteSets, TLC

VARIABLES
    pc,                \* stage process_question is about to run, or its terminal state
    question,          \* argument question
    user_policies,     \* argument user_policies: ordered dict {type: filename}
    policies,          \* the policies directory: filename -> document
    scenario_details,  \* local scenario_details
    selection_result,  \* local selection_result
    retrieved_chunks,  \* local retrieved_chunks
    response,          \* the dict process_question returns
    agent_trace,       \* local agent_trace
    exc,               \* the exception that escaped process_question, or None
    calls,             \* history: the agent methods invoked in this request, in order
    raws,              \* history: what each language-model service answered in this request
    type_filter,       \* argument policy_type_filter of the last retrieve that returned
    top_k,             \* argument top_k of the retrieval under test (that returned)
    types_to_query,    \* argument policy_types_to_query of the retrieval under test
    retriever,         \* a PolicyRetriever: [chunks, index]
    results,           \* what the last PolicyRetriever.retrieve returned
    section_types,     \* argument section_types of filter_by_section_type
    query_built,       \* what _build_enhanced_query returned
    loaded_text,       \* the text handed to the loader under test
    loaded_chunks,     \* what load_policy returned
    title_given,       \* argument section_title of _determine_chunk_type
    type_determined,   \* what _determine_chunk_type returned
    served,            \* history: how many times process_question was entered
    threads,           \* concurrent retrieve_relevant_clauses calls: their arguments and locals
    temp_retrievers    \* the temp_retriever object of each concurrent call

vars == <<pc, question, user_policies, policies, scenario_details, selection_result,
          retrieved_chunks, response, agent_trace, exc, calls, raws, type_filter,
          top_k, types_to_query, retriever, results, section_types, query_built,
          loaded_text, loaded_chunks, title_given, type_determined, served, threads,
          temp_retrievers>>

concurrent_vars == <<threads, temp_retrievers>>

loader_vars == <<loaded_text, loaded_chunks, title_given, type_determined>>

----------------------------------------------------------------------------
(* Values *)

None == "None"
Absent == "<absent>"
NoQuestion == <<>>

PolicyTypes == {"auto", "property"}

\* The policy files initialize_system loads from the policies directory
Files == {"auto_policy_1.md", "auto_policy_2.md", "property_policy_1.md", "property_policy_2.md"}

\* The files the users' policies name in the requests
UserFiles == {"auto_policy_1.md", "property_policy_1.md"}

Questions == {"Am I covered if my car is stolen?", "Is flood damage covered?"}

\* "auto" in policy_filename.lower()
NameContainsAuto(f) == f \in {"auto_policy_1.md", "auto_policy_2.md"}

\* str.capitalize() on a policy type
Capitalize(t) ==
    CASE t = "auto" -> "Auto"
      [] t = "property" -> "Property"
      [] t = "life" -> "Life"
      [] OTHER -> t

\* Positions 1..n of a sequence that satisfy Keep, in order.
RECURSIVE SelectIdx(_, _)
SelectIdx(n, keep) ==
    IF n = 0 THEN <<>>
    ELSE IF n \in keep THEN Append(SelectIdx(n - 1, keep), n)
    ELSE SelectIdx(n - 1, keep)

Prefix(s, n) == IF Len(s) <= n THEN s ELSE SubSeq(s, 1, n)

Range(s) == {s[i] : i \in 1..Len(s)}

----------------------------------------------------------------------------
(* The text a language-model service returns, and its decoding.            *)
(* A raw output is [fence, valid, value]: fence is the markdown code fence  *)
(* around the body, valid says whether json.loads accepts the body, value   *)
(* is what json.loads returns for it.                                       *)

\* The fence stripping the three agents share: the text between the fences.
StripFence(raw) == [valid |-> raw.valid, value |-> raw.value]

\* json.loads of the stripped text: ok, or JSONDecodeError.
JsonLoads(raw) ==
    LET body == StripFence(raw)
    IN  [ok |-> body.valid, value |-> body.value]

----------------------------------------------------------------------------
(* Agent 2: ScenarioInterpreter.interpret *)

ScenarioObject(a, e, l, pt, c, n) ==
    [json |-> "object", asset |-> a, event |-> e, location |-> l, policy_type |-> pt,
     confidence |-> c, reasoning |-> "llm reasoning", needs_clarification |-> n]

ScenarioNonObject ==
    [json |-> "other", asset |-> Absent, event |-> Absent, location |-> Absent,
     policy_type |-> Absent, confidence |-> Absent, reasoning |-> Absent,
     needs_clarification |-> Absent]

DefaultScenario ==
    [json |-> "object", asset |-> "unknown", event |-> "unknown", location |-> "unknown",
     policy_type |-> "ambiguous", confidence |-> "low",
     reasoning |-> "Unable to parse interpretation response",
     needs_clarification |-> "true"]

NoScenario == [ScenarioNonObject EXCEPT !.json = None]

InterpreterOutputs ==
    { [fence |-> "none", valid |-> TRUE,
       value |-> ScenarioObject("car", "theft", "garage", "auto", "high", "false")],
      [fence |-> "json", valid |-> TRUE,
       value |-> ScenarioObject("unknown", "flood", "", "ambiguous", "low", "true")],
      [fence |-> "plain", valid |-> TRUE,
       value |-> ScenarioObject("house", "fire", "unknown", "property", "medium", "false")],
      [fence |-> "none", valid |-> TRUE,
       value |-> ScenarioObject(Absent, "theft", "garage", "auto", "high", "false")],
      [fence |-> "none", valid |-> TRUE,
       value |-> ScenarioObject("car", "theft", Absent, Absent, Absent, Absent)],
      [fence |-> "none", valid |-> TRUE, value |-> ScenarioNonObject],
      [fence |-> "none", valid |-> FALSE, value |-> ScenarioNonObject],
      [fence |-> "json", valid |-> FALSE, value |-> ScenarioNonObject] }

Interpret(raw) ==
    LET parsed == JsonLoads(raw)
    IN  IF parsed.ok THEN parsed.value ELSE DefaultScenario

----------------------------------------------------------------------------
(* ScenarioClassifier.classify *)

ClassificationObject(c, conf) ==
    [json |-> "object", classification |-> c, confidence |-> conf,
     reasoning |-> "llm reasoning"]

ClassificationNonObject ==
    [json |-> "other", classification |-> Absent, confidence |-> Absent,
     reasoning |-> Absent]

DefaultClassification ==
    [json |-> "object", classification |-> "ambiguous", confidence |-> "low",
     reasoning |-> "Unable to parse classification response"]

NoClassification == [ClassificationNonObject EXCEPT !.json = None]

RecognizedClassifications == {"auto", "property", "both", "ambiguous"}

\* Values the service was not asked for, the documented ones in another case included.
GarbageClassifications == {"AUTO", "life", ""}

ClassifierOutputs ==
    { [fence |-> "none", valid |-> TRUE, value |-> ClassificationObject(c, "high")] :
          c \in RecognizedClassifications \cup GarbageClassifications }
    \cup
    { [fence |-> "json", valid |-> TRUE, value |-> ClassificationObject("auto", "weird")],
      [fence |-> "none", valid |-> TRUE, value |-> ClassificationObject(Absent, "high")],
      [fence |-> "none", valid |-> TRUE, value |-> ClassificationObject("property", Absent)],
      [fence |-> "none", valid |-> TRUE, value |-> ClassificationObject("life", Absent)],
      [fence |-> "none", valid |-> TRUE, value |-> ClassificationNonObject],
      [fence |-> "none", valid |-> FALSE, value |-> ClassificationNonObject] }

Classify(raw) ==
    LET parsed == JsonLoads(raw)
    IN  IF parsed.ok THEN parsed.value ELSE DefaultClassification

----------------------------------------------------------------------------
(* Agent 1: PolicySelector.select_policies                                  *)
(* user_policies is a sequence of [type, file] with distinct types: a dict  *)
(* in insertion order.                                                      *)

Keys(up) == [i \in 1..Len(up) |-> up[i].type]

HasKey(up, t) == \E i \in 1..Len(up) : up[i].type = t

Lookup(up, t) == up[CHOOSE i \in 1..Len(up) : up[i].type = t].file

\* " or ".join([t.capitalize() for t in available_types]), as tokens
RECURSIVE JoinOr(_)
JoinOr(types) ==
    IF Len(types) = 0 THEN <<>>
    ELSE IF Len(types) = 1 THEN <<Capitalize(types[1])>>
    ELSE <<Capitalize(types[1]), " or ">> \o JoinOr(Tail(types))

\* Mutant: the question names only the first available type
GenerateClarificationQuestion_FirstTypeOnly(available_types) ==
    <<"Your question could relate to either ">> \o JoinOr(Prefix(available_types, 1))
        \o <<" insurance. Are you asking about your vehicle or your home/property?">>

GenerateClarificationQuestion(available_types) ==
    <<"Your question could relate to either ">> \o JoinOr(available_types)
        \o <<" insurance. Are you asking about your vehicle or your home/property?">>

Selection(p, n, q, c) ==
    [raised |-> None, policies_to_query |-> p, needs_clarification |-> n,
     clarification_question |-> q, classification |-> c]

SelectionRaised(e) ==
    [raised |-> e, policies_to_query |-> <<>>, needs_clarification |-> FALSE,
     clarification_question |-> NoQuestion, classification |-> NoClassification]

NoSelection == SelectionRaised("<not run>")

\* f"User only has {available_types[0]} insurance"
OnlyHasReasoning(t) ==
    "User only has " \o t \o " insurance"

\* Mutant: the single-type branch asks for clarification like the ambiguous branch
SelectSingle_Clarifies(available_types) ==
    Selection(available_types, TRUE, GenerateClarificationQuestion(available_types),
              [json |-> "object", classification |-> available_types[1],
               confidence |-> "high", reasoning |-> OnlyHasReasoning(available_types[1])])

\* The branch of select_policies taken when the user has exactly one policy type.
SelectSingle(available_types) ==
    Selection(available_types, FALSE, NoQuestion,
              [json |-> "object", classification |-> available_types[1],
               confidence |-> "high", reasoning |-> OnlyHasReasoning(available_types[1])])

\* Mutant: a clear classification selects its type whether or not the user has it
SelectClassified_IgnoresAvailability(available_types, classification) ==
    IF classification.json # "object" THEN SelectionRaised("TypeError")
    ELSE IF classification.classification = Absent \/ classification.confidence = Absent
    THEN SelectionRaised("KeyError")
    ELSE LET scenario_type == classification.classification
         IN  IF scenario_type \in {"auto", "property"}
             THEN Selection(<<scenario_type>>, FALSE, NoQuestion, classification)
             ELSE IF scenario_type = "both"
             THEN Selection(available_types, FALSE, NoQuestion, classification)
             ELSE Selection(available_types, TRUE,
                            GenerateClarificationQuestion(available_types),
                            classification)

\* The branches of select_policies after the classifier has answered.
SelectClassified(available_types, classification) ==
    IF classification.json # "object" THEN SelectionRaised("TypeError")
    ELSE IF classification.classification = Absent \/ classification.confidence = Absent
    THEN SelectionRaised("KeyError")
    ELSE LET scenario_type == classification.classification
         IN  IF scenario_type = "auto"
             THEN IF "auto" \in Range(available_types)
                  THEN Selection(<<"auto">>, FALSE, NoQuestion, classification)
                  ELSE Selection(available_types, FALSE, NoQuestion, classification)
             ELSE IF scenario_type = "property"
             THEN IF "property" \in Range(available_types)
                  THEN Selection(<<"property">>, FALSE, NoQuestion, classification)
                  ELSE Selection(available_types, FALSE, NoQuestion, classification)
             ELSE IF scenario_type = "both"
             THEN Selection(available_types, FALSE, NoQuestion, classification)
             ELSE Selection(available_types, TRUE,
                            GenerateClarificationQuestion(available_types),
                            classification)

----------------------------------------------------------------------------
(* Texts and the embedding provider (rag/embeddings.py).                    *)
(* A text is a sequence of tokens; joining strings is concatenation.  The   *)
(* provider is deterministic: it maps a text to a vector [dir, mag], a      *)
(* direction 0..5 (multiples of 60 degrees) and a length.                   *)

Titles == {"Part D - Physical Damage Coverage", "Exclusions", "Definitions"}

Bodies == {"We will pay for theft of your covered auto.", "Flood is not covered.",
           "Terms used in this policy."}

TokenDir(tok) ==
    CASE tok = "We will pay for theft of your covered auto." -> 0
      [] tok = "Flood is not covered." -> 1
      [] tok = "Terms used in this policy." -> 3
      [] tok = "Is flood damage covered?" -> 1
      [] tok = "car" -> 5
      [] tok = "house" -> 2
      [] tok = "fire" -> 1
      [] OTHER -> 0

RECURSIVE SumDir(_)
SumDir(text) == IF Len(text) = 0 THEN 0 ELSE TokenDir(Head(text)) + SumDir(Tail(text))

\* EmbeddingGenerator.generate_embedding / generate_embeddings, per text
Embed(text) == [dir |-> SumDir(text) % 6, mag |-> 2]

\* faiss.normalize_L2: same direction, unit length
NormalizeL2(v) == [dir |-> v.dir, mag |-> 1]

\* Squared L2 distance between two unit vectors, as IndexFlatL2 reports it
SqDist(a, b) ==
    LET k == (a.dir - b.dir) % 6
    IN  CASE k = 0 -> 0
          [] k \in {1, 5} -> 1
          [] k \in {2, 4} -> 3
          [] OTHER -> 4

----------------------------------------------------------------------------
(* rag/policy_loader.py.  The text of a policy file is a sequence of tokens: *)
(* whole lines of text, the newline "\n", and the heading markers "\n## "   *)
(* and "\n### " (a newline followed by the marker, as re.split looks for    *)
(* them).  A marker token is followed by the line of the heading.  "## " is *)
(* the marker without the newline: at the very start of a file, or put back *)
(* by load_policy after the split.                                          *)

H2 == "\n## "
H3 == "\n### "
NL == "\n"

\* The phrases of _determine_chunk_type that occur in a lower-cased token
Phrases(tok) ==
    CASE tok = "Part D - Physical Damage Coverage" -> {"coverage"}
      [] tok = "Exclusions" -> {"exclusion"}
      [] tok = "Coverage Exclusions" -> {"coverage", "exclusion"}
      [] tok = "We will pay for theft of your covered auto." -> {"we will pay"}
      [] tok = "Flood is not covered." -> {"not covered"}
      [] OTHER -> {}

TextPhrases(text) == UNION {Phrases(text[i]) : i \in 1..Len(text)}

\* Mutant: the body phrases are looked at before the heading keywords
DetermineChunkType_BodyFirst(section_title, section_content) ==
    LET title_lower == Phrases(section_title)
        content_lower == TextPhrases(section_content)
    IN  IF content_lower \cap {"not covered", "we do not cover", "excluded", "exclusion"} # {}
        THEN "exclusion"
        ELSE IF content_lower \cap {"we will pay", "we cover", "coverage includes"} # {}
        THEN "coverage"
        ELSE IF title_lower \cap {"exclusion", "not covered"} # {} THEN "exclusion"
        ELSE IF title_lower \cap {"coverage", "perils insured"} # {} THEN "coverage"
        ELSE "general"

DetermineChunkType(section_title, section_content) ==
    LET title_lower == Phrases(section_title)
        content_lower == TextPhrases(section_content)
    IN  IF title_lower \cap {"exclusion", "not covered"} # {} THEN "exclusion"
        ELSE IF title_lower \cap {"coverage", "perils insured"} # {} THEN "coverage"
        ELSE IF content_lower \cap {"not covered", "we do not cover", "excluded", "exclusion"} # {}
        THEN "exclusion"
        ELSE IF content_lower \cap {"we will pay", "we cover", "coverage includes"} # {}
        THEN "coverage"
        ELSE "general"

\* re.split(sep, text): the pieces of text between the occurrences of sep
RECURSIVE Split(_, _)
Split(text, sep) ==
    IF \A i \in 1..Len(text) : text[i] # sep THEN <<text>>
    ELSE LET i == CHOOSE k \in 1..Len(text) :
                      text[k] = sep /\ \A j \in 1..(k - 1) : text[j] # sep
         IN  <<SubSeq(text, 1, i - 1)>> \o Split(SubSeq(text, i + 1, Len(text)), sep)

\* str.lstrip: leading newlines go, and so does the newline a leading "\n### " starts with
RECURSIVE LStrip(_)
LStrip(text) ==
    IF Len(text) = 0 THEN text
    ELSE IF Head(text) = NL THEN LStrip(Tail(text))
    ELSE IF Head(text) = H3 THEN <<"### ">> \o Tail(text)
    ELSE text

RECURSIVE RStrip(_)
RStrip(text) ==
    IF Len(text) = 0 THEN text
    ELSE IF text[Len(text)] = NL THEN RStrip(SubSeq(text, 1, Len(text) - 1))
    ELSE text

\* str.strip
Strip(text) == RStrip(LStrip(text))

\* re.match(marker + r"(.+?)\n", text).group(1), or the default when there is no match:
\* the line after the marker, when a newline follows it
HeadingTitle(text, default) ==
    IF Len(text) >= 3 /\ text[2] \notin {NL, H3} /\ text[3] \in {NL, H3} THEN text[2]
    ELSE default

\* The text "## title\nbody" of a section
SectionText(sec) == <<"## ", sec.title, "\n", sec.body>>

PolicyChunk(text, policy_type, policy_file, section_name, chunk_type) ==
    [text |-> text, policy_type |-> policy_type, policy_file |-> policy_file,
     section_name |-> section_name, chunk_type |-> chunk_type]

\* policy_type = "auto" if "auto" in policy_filename.lower() else "property"
FilePolicyType(policy_filename) ==
    IF NameContainsAuto(policy_filename) THEN "auto" ELSE "property"

\* Lines 86-127: the chunks of one top-level section, section being "## " and what
\* followed the marker
SectionChunks(section, policy_type, policy_filename) ==
    LET section_title == HeadingTitle(section, "Unknown Section")
        chunk_type == DetermineChunkType(section_title, section)
        subsections == Split(section, H3)
        SubChunk(j) ==
            LET subsection == <<"### ">> \o subsections[j]
                subsection_title == HeadingTitle(subsection, "Unknown Subsection")
            IN  PolicyChunk(Strip(subsection), policy_type, policy_filename,
                            section_title \o " - " \o subsection_title, chunk_type)
    IN  IF Len(subsections) = 1
        THEN <<PolicyChunk(Strip(section), policy_type, policy_filename, section_title,
                           chunk_type)>>
        ELSE (IF Strip(subsections[1]) # <<>>
              THEN <<PolicyChunk(Strip(subsections[1]), policy_type, policy_filename,
                                 section_title, chunk_type)>>
              ELSE <<>>)
             \o [k \in 1..(Len(subsections) - 1) |-> SubChunk(k + 1)]

RECURSIVE Flatten(_)
Flatten(lists) ==
    IF Len(lists) = 0 THEN <<>> ELSE Head(lists) \o Flatten(Tail(lists))

\* PolicyLoader.load_policy on the text stored under policy_filename
LoadPolicy(fs, policy_filename) ==
    LET policy_type == FilePolicyType(policy_filename)
        sections == Split(fs[policy_filename], H2)
        header == IF Strip(sections[1]) # <<>>
                  THEN <<PolicyChunk(Strip(sections[1]), policy_type, policy_filename,
                                     "Policy Header", "general")>>
                  ELSE <<>>
    IN  header \o Flatten([i \in 1..(Len(sections) - 1) |->
                              SectionChunks(<<"## ">> \o sections[i + 1], policy_type,
                                            policy_filename)])

----------------------------------------------------------------------------
(* rag/retriever.py: PolicyRetriever.  index is the sequence of normalized  *)
(* vectors, position i for chunk i; has_index is "self.index is not None".  *)

NewRetriever == [chunks |-> <<>>, has_index |-> FALSE, index |-> <<>>]

\* build_index: the chunks are stored first; an empty batch comes back from the
\* provider as an array without a second dimension, and shape[1] raises.
BuildIndex(r, chunks) ==
    IF Len(chunks) = 0
    THEN [raised |-> "IndexError", retriever |-> [r EXCEPT !.chunks = chunks]]
    ELSE [raised |-> None,
          retriever |-> [chunks |-> chunks, has_index |-> TRUE,
                         index |-> [i \in 1..Len(chunks) |->
                                        NormalizeL2(Embed(chunks[i].text))]]]

\* index.search: the search_k nearest positions, nearest first (ties in
\* insertion order), padded with the position 0 (faiss's -1) when the index is smaller.
Search(index, query_embedding, search_k) ==
    LET n == Len(index)
        d(i) == SqDist(index[i], query_embedding)
        rank(i) == Cardinality({j \in 1..n : d(j) < d(i) \/ (d(j) = d(i) /\ j < i)})
        at(r) == CHOOSE i \in 1..n : rank(i) = r - 1
    IN  [r \in 1..search_k |->
            IF r <= n THEN [idx |-> at(r), distance |-> d(at(r))]
            ELSE [idx |-> 0, distance |-> 0]]

RetrievalResult(chunk, distance) ==
    [text |-> chunk.text, section_name |-> chunk.section_name,
     policy_type |-> chunk.policy_type, policy_file |-> chunk.policy_file,
     chunk_type |-> chunk.chunk_type, similarity |-> 2 - distance]

\* Mutant: a retriever that was never built answers with no results
Retrieve_EmptyWhenNotBuilt(r, query, k, policy_type_filter) ==
    IF ~r.has_index \/ Len(r.chunks) = 0
    THEN [raised |-> None, results |-> <<>>]
    ELSE LET query_embedding == NormalizeL2(Embed(query))
             search_k == IF policy_type_filter # None THEN k * 3 ELSE k
             found == Search(r.index, query_embedding, search_k)
             kept == {p \in 1..search_k :
                         /\ found[p].idx # 0
                         /\ \/ policy_type_filter = None
                            \/ r.chunks[found[p].idx].policy_type = policy_type_filter}
             order == SelectIdx(search_k, kept)
             all == [p \in 1..Len(order) |->
                        RetrievalResult(r.chunks[found[order[p]].idx],
                                        found[order[p]].distance)]
         IN  [raised |-> None, results |-> Prefix(all, k)]

\* PolicyRetriever.retrieve; policy_type_filter is None or a policy type
Retrieve(r, query, k, policy_type_filter) ==
    IF ~r.has_index \/ Len(r.chunks) = 0
    THEN [raised |-> "ValueError", results |-> <<>>]
    ELSE LET query_embedding == NormalizeL2(Embed(query))
             search_k == IF policy_type_filter # None THEN k * 3 ELSE k
             found == Search(r.index, query_embedding, search_k)
             kept == {p \in 1..search_k :
                         /\ found[p].idx # 0
                         /\ \/ policy_type_filter = None
                            \/ r.chunks[found[p].idx].policy_type = policy_type_filter}
             order == SelectIdx(search_k, kept)
             all == [p \in 1..Len(order) |->
                        RetrievalResult(r.chunks[found[order[p]].idx],
                                        found[order[p]].distance)]
         IN  [raised |-> None, results |-> Prefix(all, k)]

----------------------------------------------------------------------------
(* Agent 3: agents/retrieval_agent.py *)

\* scenario_details.get(key, "")
Get(v) == IF v = Absent THEN "" ELSE v

\* Mutant: the "unknown" placeholders are appended like any other value
BuildEnhancedQuery_KeepsUnknown(q, sd) ==
    LET asset == Get(sd.asset)
        event == Get(sd.event)
        location == Get(sd.location)
    IN  <<q>>
        \o (IF asset # "" THEN <<" | ", "Asset: ", asset>> ELSE <<>>)
        \o (IF event # "" THEN <<" | ", "Event: ", event>> ELSE <<>>)
        \o (IF location # "" THEN <<" | ", "Location: ", location>> ELSE <<>>)

BuildEnhancedQuery(q, sd) ==
    LET asset == Get(sd.asset)
        event == Get(sd.event)
        location == Get(sd.location)
    IN  <<q>>
        \o (IF asset # "" /\ asset # "unknown" THEN <<" | ", "Asset: ", asset>> ELSE <<>>)
        \o (IF event # "" /\ event # "unknown" THEN <<" | ", "Event: ", event>> ELSE <<>>)
        \o (IF location # "" /\ location \notin {"unknown", ""}
            THEN <<" | ", "Location: ", location>> ELSE <<>>)

\* Mutant: the merged list is left in per-type order
SortBySimilarity_Unsorted(all_retrieved) == all_retrieved

\* all_retrieved.sort(key=similarity, reverse=True): stable, highest first
SortBySimilarity(all_retrieved) ==
    LET n == Len(all_retrieved)
        s(i) == all_retrieved[i].similarity
        rank(i) == Cardinality({j \in 1..n : s(j) > s(i) \/ (s(j) = s(i) /\ j < i)})
    IN  [r \in 1..n |-> all_retrieved[CHOOSE i \in 1..n : rank(i) = r - 1]]

\* Lines 70-79 of retrieve_relevant_clauses: a new PolicyRetriever is built on
\* user_chunks and then queried; ops is the history of its methods entered.
QueryTempRetriever(user_chunks, enhanced_query, k) ==
    LET built == BuildIndex(NewRetriever, user_chunks)
    IN  IF built.raised # None
        THEN [raised |-> built.raised, results |-> <<>>, ops |-> <<"build_index">>]
        ELSE Retrieve(built.retriever, enhanced_query, k, None)
                 @@ [ops |-> <<"build_index", "retrieve">>]

\* One pass of the loop body of retrieve_relevant_clauses for policy_type
RetrieveOneType(fs, up, policy_type, enhanced_query, k) ==
    IF ~HasKey(up, policy_type) THEN [raised |-> None, results |-> <<>>]
    ELSE LET user_chunks == LoadPolicy(fs, Lookup(up, policy_type))
         IN  QueryTempRetriever(user_chunks, enhanced_query, k)

\* The loop of retrieve_relevant_clauses: the first exception ends it
RECURSIVE RetrieveEachType(_, _, _, _, _)
RetrieveEachType(fs, up, types, enhanced_query, k) ==
    IF Len(types) = 0 THEN [raised |-> None, results |-> <<>>]
    ELSE LET first == RetrieveOneType(fs, up, Head(types), enhanced_query, k)
         IN  IF first.raised # None THEN first
             ELSE LET rest == RetrieveEachType(fs, up, Tail(types), enhanced_query, k)
                  IN  IF rest.raised # None THEN rest
                      ELSE [raised |-> None, results |-> first.results \o rest.results]

RetrieveRelevantClauses(fs, q, sd, up, policy_types_to_query, k) ==
    LET enhanced_query == BuildEnhancedQuery(q, sd)
        each == RetrieveEachType(fs, up, policy_types_to_query, enhanced_query, k)
    IN  IF each.raised # None THEN each
        ELSE [raised |-> None, results |-> Prefix(SortBySimilarity(each.results), k)]

\* str.lower() on a section type
Lower(t) ==
    CASE t = "Coverage" -> "coverage"
      [] t = "Exclusion" -> "exclusion"
      [] OTHER -> t

\* chunk.get("section_type", ""): a result dict is a record, its keys the fields
GetSectionType(chunk) ==
    IF "section_type" \in DOMAIN chunk THEN chunk.section_type ELSE ""

\* The list comprehension of filter_by_section_type (lines 131-134)
Filtered(chunks, sts) ==
    LET wanted == {Lower(sts[j]) : j \in 1..Len(sts)}
        keep == {i \in 1..Len(chunks) : Lower(GetSectionType(chunks[i])) \in wanted}
        order == SelectIdx(Len(chunks), keep)
    IN  [p \in 1..Len(order) |-> chunks[order[p]]]

\* Mutant: the filtered list is returned even when it is empty
FilterBySectionType_NoFallback(chunks, sts) ==
    IF Len(sts) = 0 THEN chunks ELSE Filtered(chunks, sts)

\* PolicyRetrievalAgent.filter_by_section_type
FilterBySectionType(chunks, sts) ==
    IF Len(sts) = 0 THEN chunks
    ELSE LET filtered == Filtered(chunks, sts)
         IN  IF Len(filtered) > 0 THEN filtered ELSE chunks

----------------------------------------------------------------------------
(* Agent 4: agents/explanation_agent.py *)

Disclaimer == "This information is for educational purposes only ..."

FallbackExplanation ==
    "I'm having trouble analyzing your policy. Please contact your insurance agent for specific coverage details."

ClarifyExplanation == "Please clarify your question to get a specific coverage answer."

NotFoundExplanation ==
    "Could not find relevant policy information to answer your question. Please try rephrasing."

CoverageResults == {"Yes", "No", "It depends"}

AnswerObject(c, e) == [json |-> "object", coverage_result |-> c, explanation |-> e]

AnswerNonObject == [json |-> "other", coverage_result |-> Absent, explanation |-> Absent]

SynthesizerOutputs ==
    { [fence |-> "none", valid |-> TRUE, value |-> AnswerObject(c, "llm explanation")] :
          c \in CoverageResults }
    \cup
    { [fence |-> "json", valid |-> TRUE, value |-> AnswerObject("No", "llm explanation")],
      [fence |-> "none", valid |-> TRUE, value |-> AnswerObject("Maybe", "llm explanation")],
      [fence |-> "none", valid |-> TRUE, value |-> AnswerObject(Absent, "llm explanation")],
      [fence |-> "none", valid |-> TRUE, value |-> AnswerObject("Yes", Absent)],
      [fence |-> "none", valid |-> TRUE, value |-> AnswerNonObject],
      [fence |-> "none", valid |-> FALSE, value |-> AnswerNonObject],
      [fence |-> "plain", valid |-> FALSE, value |-> AnswerNonObject] }

DeterminePolicyApplied(chunks, policy_types) ==
    LET chunk_types == {chunks[i].policy_type : i \in 1..Len(chunks)}
    IN  IF Len(chunks) = 0 THEN "Unknown"
        ELSE IF Cardinality(chunk_types) = 2 THEN "Both Auto & Property"
        ELSE IF "auto" \in chunk_types THEN "Auto"
        ELSE IF "property" \in chunk_types THEN "Property"
        ELSE "Unknown"

\* f"{chunk['policy_type'].capitalize()} Policy - {chunk['section_name']}"
SectionRef(chunk) == <<Capitalize(chunk.policy_type), " Policy - ", chunk.section_name>>

RefsLimit == 5

\* Mutant: a section is cited once for every chunk of it
ExtractReferences_KeepsDuplicates(chunks) ==
    LET top == Prefix(chunks, RefsLimit)
    IN  [p \in 1..Len(top) |-> SectionRef(top[p])]

ExtractReferences(chunks) ==
    LET top == Prefix(chunks, RefsLimit)
        first == {i \in 1..Len(top) :
                     \A j \in 1..(i - 1) : SectionRef(top[j]) # SectionRef(top[i])}
        order == SelectIdx(Len(top), first)
    IN  [p \in 1..Len(order) |-> SectionRef(top[order[p]])]

Answer(pa, c, e, refs) ==
    [policy_applied |-> pa, coverage_result |-> c, explanation |-> e,
     policy_references |-> refs, disclaimer |-> Disclaimer]

NoAnswer == Answer(Absent, Absent, Absent, <<>>)

\* Mutant: the fallback forgets the references
GenerateResponse_FallbackWithoutRefs(chunks, policy_types_queried, raw) ==
    LET policy_applied == DeterminePolicyApplied(chunks, policy_types_queried)
        parsed == JsonLoads(raw)
    IN  IF ~parsed.ok
        THEN [raised |-> None,
              response |-> Answer(policy_applied, "It depends", FallbackExplanation, <<>>)]
        ELSE IF parsed.value.json # "object"
        THEN [raised |-> "TypeError", response |-> NoAnswer]
        ELSE [raised |-> None,
              response |-> Answer(policy_applied, parsed.value.coverage_result,
                                  parsed.value.explanation, ExtractReferences(chunks))]

\* ExplanationAgent.generate_response, raw being what the language model answered
GenerateResponse(chunks, policy_types_queried, raw) ==
    LET policy_applied == DeterminePolicyApplied(chunks, policy_types_queried)
        parsed == JsonLoads(raw)
    IN  IF ~parsed.ok
        THEN [raised |-> None,
              response |-> Answer(policy_applied, "It depends", FallbackExplanation,
                                  ExtractReferences(chunks))]
        ELSE IF parsed.value.json # "object"
        THEN [raised |-> "TypeError", response |-> NoAnswer]
        ELSE [raised |-> None,
              response |-> Answer(policy_applied, parsed.value.coverage_result,
                                  parsed.value.explanation, ExtractReferences(chunks))]

----------------------------------------------------------------------------
(* agents/orchestrator.py: AgentOrchestrator.process_question, one action   *)
(* per stage.  The stages are separated by the calls into the external      *)
(* services, whose answers are the inputs of the actions.                   *)

TopK == 5

Response(a, nc, cq) ==
    [policy_applied |-> a.policy_applied, coverage_result |-> a.coverage_result,
     explanation |-> a.explanation, policy_references |-> a.policy_references,
     disclaimer |-> a.disclaimer, needs_clarification |-> nc,
     clarification_question |-> cq]

NoResponse == [Response(NoAnswer, FALSE, NoQuestion) EXCEPT !.disclaimer = Absent]

Entry(msg, detail, count) == [msg |-> msg, detail |-> detail, count |-> count]

Terminal == {"ClarificationNeeded", "EmptyResult", "Done", "Raised"}

\* Ordered dicts {type: filename} over the policy types
UserPolicies ==
    {<<>>}
    \cup {<<[type |-> t, file |-> f]>> : t \in PolicyTypes, f \in UserFiles}
    \cup {d \in {<<[type |-> t1, file |-> f1], [type |-> t2, file |-> f2]>> :
                      t1 \in PolicyTypes, t2 \in PolicyTypes, f1 \in UserFiles, f2 \in UserFiles} :
              d[1].type # d[2].type}

Section(t, b) == [title |-> t, body |-> b]

TheftSection ==
    Section("Part D - Physical Damage Coverage", "We will pay for theft of your covered auto.")
FloodSection == Section("Exclusions", "Flood is not covered.")
TermsSection == Section("Definitions", "Terms used in this policy.")

\* The text of a file made of the given top-level sections, each on a new line
RECURSIVE Markdown(_)
Markdown(secs) ==
    IF Len(secs) = 0 THEN <<>>
    ELSE <<H2, Head(secs).title, NL, Head(secs).body>> \o Markdown(Tail(secs))

\* Directory contents the requests run against
PipelineDirectories ==
    { [f \in Files |-> IF NameContainsAuto(f) THEN a ELSE p] :
          a \in {Markdown(<<TheftSection, TheftSection, FloodSection>>),
                  Markdown(<<TermsSection>>)},
          p \in {Markdown(<<FloodSection, TermsSection>>), Markdown(<<>>)} }

\* What the services answered so far; a service not yet asked has valid = FALSE
NoRaw == [fence |-> "none", valid |-> FALSE, value |-> None]
NoRaws == [interpreter |-> NoRaw, classifier |-> NoRaw, synthesizer |-> NoRaw]

\* Mutant: the selector is run before the interpreter, as the module docstring numbers them
FirstStage_SelectorFirst == "Selecting"

\* The stage process_question runs first (lines 75-78)
FirstStage == "Interpreting"

\* initialize_system: the retriever shared by all requests, built over every policy file
SharedRetriever(fs) ==
    BuildIndex(NewRetriever,
               LoadPolicy(fs, "auto_policy_1.md") \o LoadPolicy(fs, "auto_policy_2.md")
                   \o LoadPolicy(fs, "property_policy_1.md")
                   \o LoadPolicy(fs, "property_policy_2.md"))
        .retriever

\* How many calls of process_question one orchestrator serves in a run
MaxCalls == 2

\* Mutant: the trace is kept on the orchestrator and carried into the next call
FreshTrace_KeptAcrossCalls == agent_trace

\* agent_trace = [] (line 73)
FreshTrace == <<>>

\* process_question is entered: the arguments are bound, agent_trace = []
ProcessQuestion ==
    /\ pc \in Terminal \cup {"Idle"}
    /\ served < MaxCalls
    /\ served' = served + 1
    /\ \E q \in Questions, up \in UserPolicies :
          /\ question' = q
          /\ user_policies' = up
    /\ pc' = FirstStage
    /\ scenario_details' = NoScenario
    /\ selection_result' = NoSelection
    /\ retrieved_chunks' = <<>>
    /\ response' = NoResponse
    /\ agent_trace' = FreshTrace
    /\ exc' = None
    /\ calls' = <<>>
    /\ raws' = NoRaws
    /\ UNCHANGED <<policies, top_k, types_to_query, retriever, results, type_filter>>
    /\ UNCHANGED <<section_types, query_built>>
    /\ UNCHANGED <<loader_vars, concurrent_vars>>

\* An exception leaves process_question: no response, the local trace is lost
Raise(e) ==
    /\ pc' = "Raised"
    /\ exc' = e
    /\ response' = NoResponse
    /\ agent_trace' = <<>>

\* Step 1 (lines 75-79): interpret, then format the three fields into the trace
InterpretStep ==
    /\ pc = "Interpreting"
    /\ \E raw \in InterpreterOutputs :
          LET sd == Interpret(raw)
          IN  /\ raws' = [raws EXCEPT !.interpreter = raw]
              /\ scenario_details' = sd
              /\ IF sd.json # "object" THEN Raise("TypeError")
                 ELSE IF Absent \in {sd.asset, sd.event, sd.location} THEN Raise("KeyError")
                 ELSE /\ pc' = "Selecting"
                      /\ agent_trace' = agent_trace \o
                            << Entry("Agent 2: Interpreting scenario...", <<>>, 0),
                               Entry("  -> Asset, Event, Location",
                                     <<sd.asset, sd.event, sd.location>>, 0) >>
                      /\ UNCHANGED <<exc, response>>
    /\ calls' = Append(calls, "interpret")
    /\ UNCHANGED <<question, user_policies, policies, selection_result, retrieved_chunks,
                   top_k, types_to_query, retriever, results, type_filter>>
    /\ UNCHANGED <<section_types, query_built>>
    /\ UNCHANGED <<loader_vars, concurrent_vars, served>>

\* Mutant: the early return drops the selector's question
ClarificationResponse_NoQuestion(sel) ==
    Response(Answer("Unknown", "It depends", ClarifyExplanation, <<>>), TRUE, NoQuestion)

\* What the clarification branch returns (lines 92-105)
ClarificationResponse(sel) ==
    Response(Answer("Unknown", "It depends", ClarifyExplanation, <<>>), TRUE,
             sel.clarification_question)

\* Mutant: the interpreter's own needs_clarification flag also sends the request back
NeedsClarification_OrInterpreter(sel, sd) ==
    sel.needs_clarification \/ sd.needs_clarification = "true"

\* The condition of the early return (lines 86, 91), with the selection result and the
\* scenario details in scope: needs_clarification = selection_result["needs_clarification"]
NeedsClarification(sel, sd) == sel.needs_clarification

\* Step 2 (lines 81-105): select, and return early when clarification is needed
SelectStep ==
    /\ pc = "Selecting"
    /\ LET available_types == Keys(user_policies)
       IN  IF Len(available_types) = 1
           THEN /\ selection_result' = SelectSingle(available_types)
                /\ calls' = Append(calls, "select_policies")
                /\ UNCHANGED raws
           ELSE \E raw \in ClassifierOutputs :
                   /\ selection_result' =
                          SelectClassified(available_types, Classify(raw))
                   /\ calls' = calls \o <<"select_policies", "classify">>
                   /\ raws' = [raws EXCEPT !.classifier = raw]
    /\ LET sel == selection_result'
           traced == agent_trace \o
                        << Entry("Agent 1: Selecting policies...", <<>>, 0),
                           Entry("  -> Policies to query", sel.policies_to_query, 0) >>
       IN  IF sel.raised # None THEN Raise(sel.raised)
           ELSE IF NeedsClarification(sel, scenario_details)
           THEN /\ pc' = "ClarificationNeeded"
                /\ agent_trace' =
                       Append(traced, Entry("  -> Clarification needed, returning...", <<>>, 0))
                /\ response' = ClarificationResponse(sel)
                /\ UNCHANGED exc
           ELSE /\ pc' = "Retrieving"
                /\ agent_trace' = traced
                /\ UNCHANGED <<exc, response>>
    /\ UNCHANGED <<question, user_policies, policies, scenario_details, retrieved_chunks,
                   top_k, types_to_query, retriever, results, type_filter>>
    /\ UNCHANGED <<section_types, query_built>>
    /\ UNCHANGED <<loader_vars, concurrent_vars, served>>

\* Mutant: the empty-result branch answers "No"
EmptyResponse_AnswersNo ==
    Response(Answer("Unknown", "No", NotFoundExplanation, <<>>), FALSE, NoQuestion)

\* What the empty-result branch returns (lines 121-134)
EmptyResponse ==
    Response(Answer("Unknown", "It depends", NotFoundExplanation, <<>>), FALSE, NoQuestion)

\* Step 3 (lines 107-134): retrieve with top_k = 5, and return early on no chunks
RetrieveStep ==
    /\ pc = "Retrieving"
    /\ LET got == RetrieveRelevantClauses(policies, question, scenario_details,
                                          user_policies,
                                          selection_result.policies_to_query, TopK)
           traced == agent_trace \o
                        << Entry("Agent 3: Retrieving relevant policy clauses...", <<>>, 0),
                           Entry("  -> Retrieved chunks from demo policies", <<>>,
                                 Len(got.results)) >>
       IN  /\ retrieved_chunks' = got.results
           /\ IF got.raised # None THEN Raise(got.raised)
              ELSE IF Len(got.results) = 0
              THEN /\ pc' = "EmptyResult"
                   /\ agent_trace' =
                          Append(traced, Entry("  -> No relevant chunks found!", <<>>, 0))
                   /\ response' = EmptyResponse
                   /\ UNCHANGED exc
              ELSE /\ pc' = "Synthesizing"
                   /\ agent_trace' = traced
                   /\ UNCHANGED <<exc, response>>
    /\ calls' = Append(calls, "retrieve_relevant_clauses")
    /\ UNCHANGED <<raws, question, user_policies, policies, scenario_details, selection_result,
                   top_k, types_to_query, retriever, results, type_filter>>
    /\ UNCHANGED <<section_types, query_built>>
    /\ UNCHANGED <<loader_vars, concurrent_vars, served>>

\* Step 4 (lines 136-155): synthesize and add the request's metadata
SynthesizeStep ==
    /\ pc = "Synthesizing"
    /\ \E raw \in SynthesizerOutputs :
          LET got == GenerateResponse(retrieved_chunks,
                                      selection_result.policies_to_query, raw)
          IN  /\ raws' = [raws EXCEPT !.synthesizer = raw]
              /\ IF got.raised # None THEN Raise(got.raised)
                 ELSE /\ pc' = "Done"
                      /\ agent_trace' = agent_trace \o
                             << Entry("Agent 4: Generating explanation...", <<>>, 0),
                                Entry("  -> Explanation generated", <<>>, 0) >>
                      /\ response' = Response(got.response, FALSE, NoQuestion)
                      /\ UNCHANGED exc
    /\ calls' = Append(calls, "generate_response")
    /\ UNCHANGED <<question, user_policies, policies, scenario_details, selection_result,
                   retrieved_chunks, top_k, types_to_query, retriever, results, type_filter>>
    /\ UNCHANGED <<section_types, query_built>>
    /\ UNCHANGED <<loader_vars, concurrent_vars, served>>

Init ==
    /\ loaded_text = <<>>
    /\ loaded_chunks = <<>>
    /\ title_given = None
    /\ type_determined = None
    /\ served = 0
    /\ threads = <<>>
    /\ temp_retrievers = <<>>
    /\ pc = "Idle"
    /\ question \in Questions
    /\ user_policies = <<>>
    /\ policies \in PipelineDirectories
    /\ scenario_details = NoScenario
    /\ selection_result = NoSelection
    /\ retrieved_chunks = <<>>
    /\ response = NoResponse
    /\ agent_trace = <<>>
    /\ exc = None
    /\ calls = <<>>
    /\ raws = NoRaws
    /\ type_filter = None
    /\ top_k = TopK
    /\ types_to_query = <<>>
    /\ retriever = SharedRetriever(policies)
    /\ results = <<>>
    /\ section_types = <<>>
    /\ query_built = <<>>

Next ==
    \/ ProcessQuestion
    \/ InterpretStep
    \/ SelectStep
    \/ RetrieveStep
    \/ SynthesizeStep

Spec == Init /\ [][Next]_vars

----------------------------------------------------------------------------
(* retrieve_relevant_clauses on its own: the directory, the user's dict,    *)
(* the requested types and top_k are drawn, then the method is applied.     *)

MaxDocChunks == 2
MaxTopK == 2

SectionChoices == {TheftSection, FloodSection, TermsSection}

RECURSIVE SeqsUpTo(_, _)
SeqsUpTo(S, n) ==
    IF n = 0 THEN {<<>>}
    ELSE LET shorter == SeqsUpTo(S, n - 1)
         IN  shorter \cup {Append(q, x) : q \in {r \in shorter : Len(r) = n - 1}, x \in S}

Documents == {Markdown(d) : d \in SeqsUpTo(SectionChoices, MaxDocChunks)}

TypeLists == {<<>>, <<"auto">>, <<"property">>, <<"auto", "property">>,
              <<"property", "auto">>}

InitRetrieval ==
    /\ loaded_text = <<>>
    /\ loaded_chunks = <<>>
    /\ title_given = None
    /\ type_determined = None
    /\ served = 0
    /\ threads = <<>>
    /\ temp_retrievers = <<>>
    /\ pc = "RetrievalCalled"
    /\ question = "Is flood damage covered?"
    /\ user_policies \in UserPolicies
    /\ policies \in {[f \in Files |-> IF NameContainsAuto(f) THEN a ELSE p] :
                          a \in Documents, p \in Documents}
    /\ scenario_details = DefaultScenario
    /\ selection_result = NoSelection
    /\ retrieved_chunks = <<>>
    /\ response = NoResponse
    /\ agent_trace = <<>>
    /\ exc = None
    /\ calls = <<>>
    /\ raws = NoRaws
    /\ type_filter = None
    /\ top_k \in 1..MaxTopK
    /\ types_to_query \in TypeLists
    /\ retriever = NewRetriever
    /\ results = <<>>
    /\ section_types = <<>>
    /\ query_built = <<>>

RetrieveRelevantClausesCall ==
    /\ pc = "RetrievalCalled"
    /\ LET got == RetrieveRelevantClauses(policies, question, scenario_details,
                                          user_policies, types_to_query, top_k)
       IN  /\ retrieved_chunks' = got.results
           /\ exc' = got.raised
           /\ pc' = IF got.raised = None THEN "RetrievalReturned" ELSE "RetrievalRaised"
    /\ UNCHANGED <<question, user_policies, policies, scenario_details, selection_result,
                   response, agent_trace, calls, raws, type_filter, top_k,
                   types_to_query, retriever, results>>
    /\ UNCHANGED <<section_types, query_built>>
    /\ UNCHANGED <<loader_vars, concurrent_vars, served>>

NextRetrieval == RetrieveRelevantClausesCall

SpecRetrieval == InitRetrieval /\ [][NextRetrieval]_vars

----------------------------------------------------------------------------
(* A PolicyRetriever on its own: build_index on a drawn chunk list, then    *)
(* retrieve with drawn query, top_k and policy_type_filter.                 *)

MaxIndexChunks == 4

ChunkChoices ==
    {PolicyChunk(SectionText(sec), t, "all_policies", sec.title,
                 DetermineChunkType(sec.title, SectionText(sec))) :
         sec \in {TheftSection, TermsSection}, t \in PolicyTypes}

ChunkLists == SeqsUpTo(ChunkChoices, MaxIndexChunks)

InitRetriever ==
    /\ loaded_text = <<>>
    /\ loaded_chunks = <<>>
    /\ title_given = None
    /\ type_determined = None
    /\ served = 0
    /\ threads = <<>>
    /\ temp_retrievers = <<>>
    /\ pc = "RetrieverNew"
    /\ question \in Questions
    /\ user_policies = <<>>
    /\ policies \in {[f \in Files |-> <<>>]}
    /\ scenario_details = NoScenario
    /\ selection_result = NoSelection
    /\ retrieved_chunks = <<>>
    /\ response = NoResponse
    /\ agent_trace = <<>>
    /\ exc = None
    /\ calls = <<>>
    /\ raws = NoRaws
    /\ type_filter = None
    /\ top_k = TopK
    /\ types_to_query = <<>>
    /\ retriever = NewRetriever
    /\ results = <<>>
    /\ section_types = <<>>
    /\ query_built = <<>>

BuildIndexCall ==
    /\ pc = "RetrieverNew"
    /\ \E chunks \in ChunkLists :
          LET built == BuildIndex(retriever, chunks)
          IN  /\ retriever' = built.retriever
              /\ exc' = built.raised
              /\ pc' = IF built.raised = None THEN "IndexBuilt" ELSE "RetrieverNew"
    /\ results' = <<>>
    /\ calls' = <<"build_index">>
    /\ UNCHANGED <<question, user_policies, policies, scenario_details, selection_result,
                   retrieved_chunks, response, agent_trace, raws, type_filter, top_k,
                   types_to_query>>
    /\ UNCHANGED <<section_types, query_built>>
    /\ UNCHANGED <<loader_vars, concurrent_vars, served>>

MaxRebuildChunks == 1

RebuildLists == SeqsUpTo(ChunkChoices, MaxRebuildChunks)

\* build_index on a retriever that already has an index
RebuildIndexCall ==
    /\ pc = "IndexBuilt"
    /\ \E chunks \in RebuildLists :
          LET built == BuildIndex(retriever, chunks)
          IN  /\ retriever' = built.retriever
              /\ exc' = built.raised
              /\ pc' = IF built.raised = None THEN "IndexRebuilt" ELSE "RebuildRaised"
    /\ results' = <<>>
    /\ calls' = <<"build_index", "build_index">>
    /\ UNCHANGED <<question, user_policies, policies, scenario_details, selection_result,
                   retrieved_chunks, response, agent_trace, raws, type_filter, top_k,
                   types_to_query>>
    /\ UNCHANGED <<section_types, query_built>>
    /\ UNCHANGED <<loader_vars, concurrent_vars, served>>

\* retrieve reads the retriever and leaves it as it is: the first query after a
\* build stands for every later one
RetrieveCall ==
    /\ pc \in {"RetrieverNew", "IndexBuilt"}
    /\ \E k \in 1..MaxTopK, f \in {None} \cup PolicyTypes :
          LET got == Retrieve(retriever, <<question>>, k, f)
          IN  /\ results' = got.results
              /\ exc' = got.raised
              /\ top_k' = IF got.raised = None THEN k ELSE top_k
              /\ type_filter' = IF got.raised = None THEN f ELSE type_filter
              /\ pc' = IF got.raised = None THEN "Retrieved" ELSE pc
    /\ calls' = <<"retrieve">>
    /\ UNCHANGED <<question, user_policies, policies, scenario_details, selection_result,
                   retrieved_chunks, response, agent_trace, raws, types_to_query,
                   retriever>>
    /\ UNCHANGED <<section_types, query_built>>
    /\ UNCHANGED <<loader_vars, concurrent_vars, served>>

\* The retrieval agent's use of a retriever (retrieval_agent.py lines 70-79) on a
\* drawn chunk list: a new retriever, build_index, then retrieve without a filter.
\* The retriever is the agent's own, so the step is taken from the start only.
TempRetrieverCall ==
    /\ pc = "RetrieverNew"
    /\ calls = <<>>
    /\ \E chunks \in ChunkLists, k \in 1..MaxTopK :
          LET got == QueryTempRetriever(chunks, <<question>>, k)
          IN  /\ results' = got.results
              /\ exc' = got.raised
              /\ calls' = got.ops
              /\ top_k' = k
    /\ type_filter' = None
    /\ pc' = "TempQueried"
    /\ UNCHANGED <<question, user_policies, policies, scenario_details, selection_result,
                   retrieved_chunks, response, agent_trace, raws, types_to_query,
                   retriever, section_types, query_built>>
    /\ UNCHANGED <<loader_vars, concurrent_vars, served>>

NextRetriever ==
    \/ BuildIndexCall
    \/ RebuildIndexCall
    \/ RetrieveCall
    \/ TempRetrieverCall

SpecRetriever == InitRetriever /\ [][NextRetriever]_vars

----------------------------------------------------------------------------
(* select_policies on its own: the user's dict is drawn over three policy   *)
(* types (the code accepts any key), then the method is applied with a      *)
(* drawn classifier answer.                                                 *)

SelectorTypes == PolicyTypes \cup {"life"}

\* Ordered dicts {type: filename} over SelectorTypes, every size and key order
SelectorUserPolicies ==
    LET lists == SeqsUpTo(SelectorTypes, Cardinality(SelectorTypes))
        distinct == {l \in lists : Cardinality(Range(l)) = Len(l)}
    IN  { [i \in 1..Len(l) |->
              [type |-> l[i],
               file |-> IF l[i] = "auto" THEN "auto_policy_1.md"
                        ELSE "property_policy_1.md"]] : l \in distinct }

InitSelector ==
    /\ loaded_text = <<>>
    /\ loaded_chunks = <<>>
    /\ title_given = None
    /\ type_determined = None
    /\ served = 0
    /\ threads = <<>>
    /\ temp_retrievers = <<>>
    /\ pc = "SelectorCalled"
    /\ question \in Questions
    /\ user_policies \in SelectorUserPolicies
    /\ policies \in {[f \in Files |-> <<>>]}
    /\ scenario_details = NoScenario
    /\ selection_result = NoSelection
    /\ retrieved_chunks = <<>>
    /\ response = NoResponse
    /\ agent_trace = <<>>
    /\ exc = None
    /\ calls = <<>>
    /\ raws = NoRaws
    /\ type_filter = None
    /\ top_k = TopK
    /\ types_to_query = <<>>
    /\ retriever = NewRetriever
    /\ results = <<>>
    /\ section_types = <<>>
    /\ query_built = <<>>

\* select_policies(question, user_policies), lines 39-117
SelectPoliciesCall ==
    /\ pc = "SelectorCalled"
    /\ LET available_types == Keys(user_policies)
       IN  IF Len(available_types) = 1
           THEN /\ selection_result' = SelectSingle(available_types)
                /\ calls' = <<"select_policies">>
                /\ UNCHANGED raws
           ELSE \E raw \in ClassifierOutputs :
                   /\ selection_result' =
                          SelectClassified(available_types, Classify(raw))
                   /\ calls' = <<"select_policies", "classify">>
                   /\ raws' = [raws EXCEPT !.classifier = raw]
    /\ exc' = selection_result'.raised
    /\ pc' = IF selection_result'.raised = None THEN "SelectorReturned" ELSE "SelectorRaised"
    /\ UNCHANGED <<question, user_policies, policies, scenario_details, retrieved_chunks,
                   response, agent_trace, type_filter, top_k, types_to_query, retriever,
                   results, section_types, query_built>>
    /\ UNCHANGED <<loader_vars, concurrent_vars, served>>

NextSelector == SelectPoliciesCall

SpecSelector == InitSelector /\ [][NextSelector]_vars

----------------------------------------------------------------------------
(* filter_by_section_type on its own: the chunk list is a result of the     *)
(* retriever or a list of dicts carrying a section_type key, the wanted     *)
(* section types are drawn, then the method is applied.                     *)

MaxFilterChunks == 3

\* Result lists as the retrieval agent's retriever produces them
RetrievedLists ==
    { QueryTempRetriever(LoadPolicy([f \in Files |-> Markdown(doc)], "auto_policy_1.md"),
                         <<q>>, Len(doc)).results :
          doc \in SeqsUpTo(SectionChoices, MaxFilterChunks) \ {<<>>}, q \in Questions }

\* Dicts with the key the filter reads, as the docstring of
\* retrieve_relevant_clauses describes the results
LabelledChunks ==
    { [text |-> "We will pay for theft of your covered auto.", section_type |-> "coverage"],
      [text |-> "Flood is not covered.", section_type |-> "Exclusion"],
      [text |-> "Terms used in this policy.", section_type |-> "general"] }

LabelledLists == SeqsUpTo(LabelledChunks, MaxFilterChunks)

SectionTypeLists ==
    {<<>>, <<"coverage">>, <<"exclusion">>, <<"general">>, <<"condition">>,
     <<"Coverage", "exclusion">>}

InitFilter ==
    /\ loaded_text = <<>>
    /\ loaded_chunks = <<>>
    /\ title_given = None
    /\ type_determined = None
    /\ served = 0
    /\ threads = <<>>
    /\ temp_retrievers = <<>>
    /\ pc = "FilterCalled"
    /\ question = "Is flood damage covered?"
    /\ user_policies = <<>>
    /\ policies \in {[f \in Files |-> <<>>]}
    /\ scenario_details = NoScenario
    /\ selection_result = NoSelection
    /\ retrieved_chunks \in RetrievedLists \cup LabelledLists
    /\ response = NoResponse
    /\ agent_trace = <<>>
    /\ exc = None
    /\ calls = <<>>
    /\ raws = NoRaws
    /\ type_filter = None
    /\ top_k = TopK
    /\ types_to_query = <<>>
    /\ retriever = NewRetriever
    /\ results = <<>>
    /\ section_types \in SectionTypeLists
    /\ query_built = <<>>

\* filter_by_section_type(chunks, section_types)
FilterBySectionTypeCall ==
    /\ pc = "FilterCalled"
    /\ results' = FilterBySectionType(retrieved_chunks, section_types)
    /\ calls' = <<"filter_by_section_type">>
    /\ pc' = "Filtered"
    /\ UNCHANGED <<question, user_policies, policies, scenario_details, selection_result,
                   retrieved_chunks, response, agent_trace, exc, raws, type_filter, top_k,
                   types_to_query, retriever, section_types, query_built>>
    /\ UNCHANGED <<loader_vars, concurrent_vars, served>>

NextFilter == FilterBySectionTypeCall

SpecFilter == InitFilter /\ [][NextFilter]_vars

----------------------------------------------------------------------------
(* _build_enhanced_query on its own: each of asset, event, location is      *)
(* missing, empty, "unknown" or a value.                                    *)

FieldStates(v) == {Absent, "", "unknown", v}

QueryScenarios ==
    { ScenarioObject(a, e, l, "auto", "high", "false") :
          a \in FieldStates("car"), e \in FieldStates("theft"), l \in FieldStates("garage") }

InitQuery ==
    /\ loaded_text = <<>>
    /\ loaded_chunks = <<>>
    /\ title_given = None
    /\ type_determined = None
    /\ served = 0
    /\ threads = <<>>
    /\ temp_retrievers = <<>>
    /\ pc = "QueryCalled"
    /\ question \in Questions
    /\ user_policies = <<>>
    /\ policies \in {[f \in Files |-> <<>>]}
    /\ scenario_details \in QueryScenarios
    /\ selection_result = NoSelection
    /\ retrieved_chunks = <<>>
    /\ response = NoResponse
    /\ agent_trace = <<>>
    /\ exc = None
    /\ calls = <<>>
    /\ raws = NoRaws
    /\ type_filter = None
    /\ top_k = TopK
    /\ types_to_query = <<>>
    /\ retriever = NewRetriever
    /\ results = <<>>
    /\ section_types = <<>>
    /\ query_built = <<>>

\* _build_enhanced_query(question, scenario_details)
BuildEnhancedQueryCall ==
    /\ pc = "QueryCalled"
    /\ query_built' = BuildEnhancedQuery(question, scenario_details)
    /\ calls' = <<"_build_enhanced_query">>
    /\ pc' = "QueryBuilt"
    /\ UNCHANGED <<question, user_policies, policies, scenario_details, selection_result,
                   retrieved_chunks, response, agent_trace, exc, raws, type_filter, top_k,
                   types_to_query, retriever, results, section_types>>
    /\ UNCHANGED <<loader_vars, concurrent_vars, served>>

NextQuery == BuildEnhancedQueryCall

SpecQuery == InitQuery /\ [][NextQuery]_vars

----------------------------------------------------------------------------
(* The policy loader on its own: load_policy on a file whose text is drawn, *)
(* or _determine_chunk_type on a drawn heading and section text.            *)

MaxSections == 2
MaxContentLines == 2

\* What a file holds before its first "\n## ": nothing, a blank line, a title line, or
\* a first section whose heading is the first line of the file
LoaderHeaders ==
    {<<>>, <<NL>>, <<"# Auto Insurance Policy", NL>>,
     <<"## ", "Exclusions", NL, "Flood is not covered.">>,
     <<"## ", "Definitions", NL, "Terms used in this policy.",
       H3, "Exclusions", NL, "Flood is not covered.">>}

TopTexts ==
    {<<H2, "Definitions", NL, "Terms used in this policy.">>,
     <<H2, "Part D - Physical Damage Coverage", NL,
       "We will pay for theft of your covered auto.">>,
     <<H2, "Definitions">>}

SubTexts ==
    {<<H3, "Exclusions", NL, "Flood is not covered.">>,
     <<H3, "Definitions", NL, "We will pay for theft of your covered auto.">>}

SubsectionTexts == {<<>>} \cup SubTexts \cup {a \o b : a \in SubTexts, b \in SubTexts}

SectionTexts == {t \o s : t \in TopTexts, s \in SubsectionTexts}

RECURSIVE SectionsUpTo(_)
SectionsUpTo(n) ==
    IF n = 0 THEN {<<>>}
    ELSE LET shorter == SectionsUpTo(n - 1)
         IN  shorter \cup {d \o sec : d \in shorter, sec \in SectionTexts}

LoaderDocuments == {h \o d : h \in LoaderHeaders, d \in SectionsUpTo(MaxSections)}

SectionTitles ==
    {"Part D - Physical Damage Coverage", "Exclusions", "Coverage Exclusions",
     "Definitions"}

ContentLines ==
    {"We will pay for theft of your covered auto.", "Flood is not covered.",
     "Terms used in this policy."}

SectionContents == SeqsUpTo(ContentLines, MaxContentLines)

InitLoader ==
    /\ question = "Is flood damage covered?"
    /\ user_policies = <<>>
    /\ scenario_details = NoScenario
    /\ selection_result = NoSelection
    /\ retrieved_chunks = <<>>
    /\ response = NoResponse
    /\ agent_trace = <<>>
    /\ exc = None
    /\ calls = <<>>
    /\ raws = NoRaws
    /\ type_filter = None
    /\ top_k = 0
    /\ types_to_query = <<>>
    /\ retriever = NewRetriever
    /\ results = <<>>
    /\ section_types = <<>>
    /\ query_built = <<>>
    /\ loaded_chunks = <<>>
    /\ type_determined = None
    /\ served = 0
    /\ threads = <<>>
    /\ temp_retrievers = <<>>
    /\ \/ /\ pc = "LoaderReady"
          /\ policies \in {[f \in Files |-> d] : d \in LoaderDocuments}
          /\ loaded_text = <<>>
          /\ title_given = None
       \/ /\ pc = "ChunkTypeReady"
          /\ policies = [f \in Files |-> <<>>]
          /\ loaded_text \in SectionContents
          /\ title_given \in SectionTitles

\* loader.load_policy(policy_filename)
LoadPolicyCall ==
    /\ pc = "LoaderReady"
    /\ \E policy_filename \in Files :
          /\ loaded_text' = policies[policy_filename]
          /\ loaded_chunks' = LoadPolicy(policies, policy_filename)
    /\ pc' = "PolicyLoaded"
    /\ UNCHANGED <<question, user_policies, policies, scenario_details, selection_result,
                   retrieved_chunks, response, agent_trace, exc, calls, raws, type_filter,
                   top_k, types_to_query, retriever, results, section_types, query_built,
                   title_given, type_determined>>
    /\ UNCHANGED <<concurrent_vars, served>>

\* loader._determine_chunk_type(section_title, section_content)
DetermineChunkTypeCall ==
    /\ pc = "ChunkTypeReady"
    /\ type_determined' = DetermineChunkType(title_given, loaded_text)
    /\ pc' = "ChunkTypeDetermined"
    /\ UNCHANGED <<question, user_policies, policies, scenario_details, selection_result,
                   retrieved_chunks, response, agent_trace, exc, calls, raws, type_filter,
                   top_k, types_to_query, retriever, results, section_types, query_built,
                   loaded_text, loaded_chunks, title_given>>
    /\ UNCHANGED <<concurrent_vars, served>>

NextLoader == LoadPolicyCall \/ DetermineChunkTypeCall

SpecLoader == InitLoader /\ [][NextLoader]_vars

----------------------------------------------------------------------------
(* Concurrent calls of retrieve_relevant_clauses on one PolicyRetrievalAgent, *)
(* as the cached orchestrator of app.py serves several sessions.  A call is   *)
(* a thread with its own arguments and locals; its steps are the statements  *)
(* that read or write a retriever object: self.chunks = ... (retriever.py    *)
(* line 50), self.index = IndexFlatL2 (line 64), self.index.add (line 70)    *)
(* and retrieve (retrieval_agent.py line 78).  retriever is the retriever    *)
(* the agent shares between the calls.                                       *)

Callers == {"call_1", "call_2"}

CallerPolicies ==
    {<<[type |-> "auto", file |-> "auto_policy_1.md"]>>,
     <<[type |-> "property", file |-> "property_policy_1.md"]>>,
     <<[type |-> "auto", file |-> "auto_policy_1.md"],
       [type |-> "property", file |-> "property_policy_1.md"]>>}

CallerTypes == {<<"auto">>, <<"property">>, <<"auto", "property">>}

ConcurrentDirectories ==
    { [f \in Files |-> IF NameContainsAuto(f) THEN Markdown(<<TheftSection, FloodSection>>)
                       ELSE p] :
          p \in {Markdown(<<FloodSection, TermsSection>>), Markdown(<<>>)} }

Thread(up, types) ==
    [user_policies |-> up, policy_types_to_query |-> types, types |-> types,
     pc |-> "Loop", user_chunks |-> <<>>, all_retrieved |-> <<>>, results |-> <<>>,
     raised |-> None]

\* Mutant: a call builds and queries the retriever the agent shares
TempRetriever_Shared(t) == "shared"

\* The retriever object a call builds and queries: the temp_retriever it creates itself
\* (retrieval_agent.py lines 70-75)
TempRetriever(t) == t

ReadRetriever(id) == IF id = "shared" THEN retriever ELSE temp_retrievers[id]

WriteRetriever(id, r) ==
    IF id = "shared"
    THEN retriever' = r /\ UNCHANGED temp_retrievers
    ELSE temp_retrievers' = [temp_retrievers EXCEPT ![id] = r] /\ UNCHANGED retriever

InitConcurrent ==
    /\ pc = "Serving"
    /\ question = "Is flood damage covered?"
    /\ user_policies = <<>>
    /\ policies \in ConcurrentDirectories
    /\ scenario_details = DefaultScenario
    /\ selection_result = NoSelection
    /\ retrieved_chunks = <<>>
    /\ response = NoResponse
    /\ agent_trace = <<>>
    /\ exc = None
    /\ calls = <<>>
    /\ raws = NoRaws
    /\ type_filter = None
    /\ top_k = MaxTopK
    /\ types_to_query = <<>>
    /\ retriever = SharedRetriever(policies)
    /\ results = <<>>
    /\ section_types = <<>>
    /\ query_built = BuildEnhancedQuery(question, scenario_details)
    /\ loaded_text = <<>>
    /\ loaded_chunks = <<>>
    /\ title_given = None
    /\ type_determined = None
    /\ served = 0
    /\ threads \in [Callers -> {Thread(up, types) : up \in CallerPolicies,
                                                    types \in CallerTypes}]
    /\ temp_retrievers = [t \in Callers |-> NewRetriever]

ConcurrentUnchanged ==
    UNCHANGED <<pc, question, user_policies, policies, scenario_details, selection_result,
                retrieved_chunks, response, agent_trace, exc, calls, raws, type_filter,
                top_k, types_to_query, results, section_types, query_built, loader_vars,
                served>>

\* Lines 63-74: the loop head, load_policy, and the construction of temp_retriever;
\* lines 82-85 when no type is left
LoopStep(t) ==
    LET th == threads[t]
    IN  /\ th.pc = "Loop"
        /\ IF Len(th.types) = 0
           THEN /\ threads' = [threads EXCEPT ![t] =
                       [th EXCEPT !.pc = "Returned",
                                  !.all_retrieved = SortBySimilarity(th.all_retrieved),
                                  !.results = Prefix(SortBySimilarity(th.all_retrieved),
                                                     top_k)]]
                /\ UNCHANGED <<retriever, temp_retrievers>>
           ELSE IF ~HasKey(th.user_policies, Head(th.types))
           THEN /\ threads' = [threads EXCEPT ![t] = [th EXCEPT !.types = Tail(th.types)]]
                /\ UNCHANGED <<retriever, temp_retrievers>>
           ELSE /\ threads' = [threads EXCEPT ![t] =
                       [th EXCEPT !.pc = "Constructed",
                                  !.user_chunks =
                                      LoadPolicy(policies,
                                                 Lookup(th.user_policies, Head(th.types)))]]
                /\ temp_retrievers' = [temp_retrievers EXCEPT ![t] = NewRetriever]
                /\ UNCHANGED retriever
        /\ ConcurrentUnchanged

\* build_index, retriever.py line 50: self.chunks = processed_chunks
SetChunksStep(t) ==
    LET th == threads[t]
        id == TempRetriever(t)
    IN  /\ th.pc = "Constructed"
        /\ WriteRetriever(id, [ReadRetriever(id) EXCEPT !.chunks = th.user_chunks])
        /\ threads' = [threads EXCEPT ![t] = [th EXCEPT !.pc = "ChunksSet"]]
        /\ ConcurrentUnchanged

\* build_index, lines 52-64: the embeddings of the local chunk list, embeddings.shape[1]
\* (IndexError when the list is empty), self.index = faiss.IndexFlatL2(embedding_dim)
NewIndexStep(t) ==
    LET th == threads[t]
        id == TempRetriever(t)
    IN  /\ th.pc = "ChunksSet"
        /\ IF Len(th.user_chunks) = 0
           THEN /\ threads' = [threads EXCEPT ![t] =
                       [th EXCEPT !.pc = "Raised", !.raised = "IndexError"]]
                /\ UNCHANGED <<retriever, temp_retrievers>>
           ELSE /\ WriteRetriever(id, [ReadRetriever(id) EXCEPT !.has_index = TRUE,
                                                                !.index = <<>>])
                /\ threads' = [threads EXCEPT ![t] = [th EXCEPT !.pc = "IndexCreated"]]
        /\ ConcurrentUnchanged

\* build_index, lines 67-70: normalize_L2 and self.index.add(embeddings)
AddVectorsStep(t) ==
    LET th == threads[t]
        id == TempRetriever(t)
    IN  /\ th.pc = "IndexCreated"
        /\ WriteRetriever(id, [ReadRetriever(id) EXCEPT !.index =
               @ \o [i \in 1..Len(th.user_chunks) |->
                        NormalizeL2(Embed(th.user_chunks[i].text))]])
        /\ threads' = [threads EXCEPT ![t] = [th EXCEPT !.pc = "IndexBuilt"]]
        /\ ConcurrentUnchanged

\* retrieval_agent.py lines 78-79: temp_retriever.retrieve and all_retrieved.extend
RetrieveStepOf(t) ==
    LET th == threads[t]
        got == Retrieve(ReadRetriever(TempRetriever(t)), query_built, top_k, None)
    IN  /\ th.pc = "IndexBuilt"
        /\ threads' = [threads EXCEPT ![t] =
               IF got.raised # None
               THEN [th EXCEPT !.pc = "Raised", !.raised = got.raised]
               ELSE [th EXCEPT !.pc = "Loop", !.types = Tail(th.types),
                               !.all_retrieved = @ \o got.results]]
        /\ UNCHANGED <<retriever, temp_retrievers>>
        /\ ConcurrentUnchanged

NextConcurrent ==
    \E t \in Callers :
        \/ LoopStep(t)
        \/ SetChunksStep(t)
        \/ NewIndexStep(t)
        \/ AddVectorsStep(t)
        \/ RetrieveStepOf(t)

SpecConcurrent == InitConcurrent /\ [][NextConcurrent]_vars

----------------------------------------------------------------------------
(* Properties of process_question (specification Spec) *)

Called(m) == m \in Range(calls)

\* The selector has returned a result in this request
SelectorReturned == Called("select_policies") /\ selection_result.raised = None

\* C1: when the selector's result has needs_clarification = true, the request ends
\* at once in ClarificationNeeded with needs_clarification = true and the selector's
\* clarification question, and neither retrieval nor synthesis is invoked.
C1_ClarificationEndsRequest ==
    (SelectorReturned /\ selection_result.needs_clarification) =>
        /\ pc = "ClarificationNeeded"
        /\ exc = None
        /\ response.needs_clarification = TRUE
        /\ response.clarification_question = selection_result.clarification_question
        /\ response.clarification_question # NoQuestion
        /\ ~Called("retrieve_relevant_clauses")
        /\ ~Called("generate_response")

C1_Witness ==
    /\ pc = "ClarificationNeeded"
    /\ selection_result.needs_clarification
    /\ Len(response.clarification_question) = 5

\* Retrieval has returned (not raised) in this request
RetrievalReturned ==
    /\ Called("retrieve_relevant_clauses")
    /\ ~(pc = "Raised" /\ calls[Len(calls)] = "retrieve_relevant_clauses")

\* C2: when retrieval yields zero chunks the request ends in EmptyResult with
\* coverage_result "It depends", the not-found explanation, no references and
\* needs_clarification = false, and the synthesizer is never invoked.
C2_EmptyRetrievalEndsRequest ==
    (RetrievalReturned /\ Len(retrieved_chunks) = 0) =>
        /\ pc = "EmptyResult"
        /\ exc = None
        /\ response.coverage_result = "It depends"
        /\ response.explanation = NotFoundExplanation
        /\ response.policy_references = <<>>
        /\ response.needs_clarification = FALSE
        /\ response.disclaimer = Disclaimer
        /\ ~Called("generate_response")

C2_Witness ==
    /\ pc = "EmptyResult"
    /\ Called("retrieve_relevant_clauses")
    /\ Len(retrieved_chunks) = 0
    /\ response.explanation = NotFoundExplanation

IsPrefix(a, b) == Len(a) <= Len(b) /\ \A i \in 1..Len(a) : a[i] = b[i]

\* The agent methods of a request in the order of the stages; classify is part of
\* select_policies and runs only for a user without exactly one policy type.
StageCalls ==
    IF Len(user_policies) = 1
    THEN <<"interpret", "select_policies", "retrieve_relevant_clauses", "generate_response">>
    ELSE <<"interpret", "select_policies", "classify", "retrieve_relevant_clauses",
           "generate_response">>

CallsUpTo(m) ==
    LET i == CHOOSE j \in 1..Len(StageCalls) : StageCalls[j] = m
    IN  SubSeq(StageCalls, 1, i)

\* C3: within one request the stages run in the order Interpreting, Selecting,
\* (ClarificationNeeded | Retrieving), (EmptyResult | Synthesizing), Done: each stage
\* starts only after its predecessors have run, once each, and none is skipped.
C3_StagesInOrder ==
    /\ pc = "Interpreting" => calls = <<>>
    /\ pc = "Selecting" => calls = CallsUpTo("interpret")
    /\ pc \in {"ClarificationNeeded", "Retrieving"} =>
           calls = SubSeq(StageCalls, 1, Len(StageCalls) - 2)
    /\ pc \in {"EmptyResult", "Synthesizing"} => calls = CallsUpTo("retrieve_relevant_clauses")
    /\ pc = "Done" => calls = StageCalls
    /\ pc = "Raised" => Len(calls) > 0 /\ IsPrefix(calls, StageCalls)

C3_Witness ==
    /\ pc = "Done"
    /\ Len(calls) = 5
    /\ calls[3] = "classify"

\* C4: the Interpreting stage never fails the pipeline: whatever the interpretation
\* service answers, the request proceeds to Selecting with a ScenarioDetails value
\* and no exception escapes the stage.
C4_InterpretingNeverFails ==
    (Called("interpret") /\ Len(calls) = 1) =>
        /\ pc = "Selecting"
        /\ exc = None
        /\ scenario_details.json = "object"
        /\ Absent \notin {scenario_details.asset, scenario_details.event,
                          scenario_details.location}

\* C5: when the synthesizer's output does not parse the request still ends in Done
\* with coverage_result "It depends", the fallback explanation, the disclaimer and
\* the references of the retrieved chunks; no exception is raised.
C5_UnparsableAnswerFallsBack ==
    (Called("generate_response") /\ ~raws.synthesizer.valid) =>
        /\ pc = "Done"
        /\ exc = None
        /\ response.coverage_result = "It depends"
        /\ response.explanation = FallbackExplanation
        /\ response.disclaimer = Disclaimer
        /\ Len(response.policy_references) >= 1
        /\ \A i \in 1..Len(retrieved_chunks) :
               SectionRef(retrieved_chunks[i]) \in Range(response.policy_references)
        /\ \A i \in 1..Len(response.policy_references) :
               \E j \in 1..Len(retrieved_chunks) :
                   response.policy_references[i] = SectionRef(retrieved_chunks[j])

C5_Witness ==
    /\ pc = "Done"
    /\ ~raws.synthesizer.valid
    /\ raws.synthesizer.fence = "plain"
    /\ Len(retrieved_chunks) = 3
    /\ Len(response.policy_references) = 2

\* C6: every response process_question returns is well formed, and one is returned
\* for every synthesizer output: it has policy_applied, an explanation, references,
\* the disclaimer, and a coverage_result among Yes, No, It depends.
C6_ResponseWellFormed ==
    /\ Called("generate_response") => pc = "Done"
    /\ pc \in {"ClarificationNeeded", "EmptyResult", "Done"} =>
           /\ response.policy_applied # Absent
           /\ response.explanation # Absent
           /\ response.disclaimer = Disclaimer
           /\ response.coverage_result \in CoverageResults

\* C10: select_policies returns a non-empty policies_to_query whenever the user has
\* at least one policy type, for every classifier response, unrecognized or garbage
\* classification values included.
C10_SelectionNonEmpty ==
    (Called("select_policies") /\ Len(user_policies) >= 1) =>
        /\ selection_result.raised = None
        /\ Len(selection_result.policies_to_query) >= 1

\* The classifier's output does not have the expected structure: it does not
\* parse, is not an object, or lacks classification or confidence.
ClassifierOutputMalformed ==
    LET raw == raws.classifier
    IN  \/ ~raw.valid
        \/ raw.value.json # "object"
        \/ raw.value.classification = Absent
        \/ raw.value.confidence = Absent

\* C15: when the classifier's raw output is malformed, classify substitutes
\* classification ambiguous with confidence low and nothing is raised: a user with
\* more than one policy type ends in ClarificationNeeded.
C15_MalformedClassifierDefaults ==
    (Called("classify") /\ ClassifierOutputMalformed) =>
        /\ exc = None
        /\ selection_result.raised = None
        /\ selection_result.classification.classification = "ambiguous"
        /\ selection_result.classification.confidence = "low"
        /\ Len(user_policies) > 1 => pc = "ClarificationNeeded"

----------------------------------------------------------------------------
(* Properties of select_policies (specification SpecSelector) *)

\* What classify returned to select_policies in this call
Classified == Classify(raws.classifier)

ClearClassifications == {"auto", "property", "both"}

\* The classifier was asked and its answer carries the two fields of a Classification
ClassifierAnswerShaped ==
    /\ Called("classify")
    /\ Classified.json = "object"
    /\ Classified.classification # Absent
    /\ Classified.confidence # Absent

SelectorDone == pc \in {"SelectorReturned", "SelectorRaised"}

\* C11: for every set of available types and every classifier response,
\* select_policies returns needs_clarification = true if and only if the
\* classification is ambiguous or unrecognized and the user has more than one type.
C11_ClarificationGating ==
    SelectorDone =>
        ((selection_result.raised = None /\ selection_result.needs_clarification)
            <=> (/\ Len(user_policies) > 1
                 /\ Called("classify")
                 /\ Classified.classification \notin ClearClassifications))

\* C12: with exactly one available type select_policies returns that type alone,
\* needs_clarification false, no clarification question, a classification echo of
\* the type with confidence high, and the classifier is not invoked.
C12_SingleTypeShortCircuit ==
    (SelectorDone /\ Len(user_policies) = 1) =>
        /\ pc = "SelectorReturned"
        /\ selection_result.policies_to_query = <<user_policies[1].type>>
        /\ selection_result.needs_clarification = FALSE
        /\ selection_result.clarification_question = NoQuestion
        /\ selection_result.classification.classification = user_policies[1].type
        /\ selection_result.classification.confidence = "high"
        /\ ~Called("classify")
        /\ raws.classifier = NoRaw

C12_Witness ==
    /\ pc = "SelectorReturned"
    /\ Len(user_policies) = 1
    /\ user_policies[1].type = "property"
    /\ question = "Am I covered if my car is stolen?"
    /\ selection_result.policies_to_query = <<"property">>

NoDuplicates(l) == Cardinality(Range(l)) = Len(l)

\* C13: with several available types and a clear classification, select_policies
\* returns needs_clarification false and: for auto (property) that type alone when
\* the user has it, all available types otherwise; for both, all available types.
\* Every returned policies_to_query is a duplicate-free subset of the available types.
C13_ClearClassificationSelects ==
    /\ (SelectorDone /\ Len(user_policies) > 1 /\ ClassifierAnswerShaped
            /\ Classified.classification \in ClearClassifications) =>
           /\ pc = "SelectorReturned"
           /\ selection_result.needs_clarification = FALSE
           /\ selection_result.policies_to_query =
                  IF /\ Classified.classification \in {"auto", "property"}
                     /\ HasKey(user_policies, Classified.classification)
                  THEN <<Classified.classification>>
                  ELSE Keys(user_policies)
    /\ pc = "SelectorReturned" =>
           /\ Range(selection_result.policies_to_query) \subseteq Range(Keys(user_policies))
           /\ NoDuplicates(selection_result.policies_to_query)

\* The question is about auto, the user holds property and life: both are queried
C13_Witness ==
    /\ pc = "SelectorReturned"
    /\ Keys(user_policies) = <<"property", "life">>
    /\ Classified.classification = "auto"
    /\ selection_result.policies_to_query = <<"property", "life">>
    /\ selection_result.needs_clarification = FALSE

\* C14: with several available types and an ambiguous or unrecognized
\* classification, select_policies selects all available types, sets
\* needs_clarification and returns a question listing every available type,
\* capitalised, joined by "or"; in every result the clarification question is
\* present exactly when needs_clarification is true.
C14_AmbiguousAsksListingTypes ==
    /\ (SelectorDone /\ Len(user_policies) > 1 /\ ClassifierAnswerShaped
            /\ Classified.classification \notin ClearClassifications) =>
           LET q == selection_result.clarification_question
               n == Len(user_policies)
           IN  /\ pc = "SelectorReturned"
               /\ selection_result.policies_to_query = Keys(user_policies)
               /\ selection_result.needs_clarification = TRUE
               /\ Len(q) = 2 * n + 1
               /\ \A i \in 1..n : q[2 * i] = Capitalize(user_policies[i].type)
               /\ \A i \in 1..(n - 1) : q[2 * i + 1] = " or "
               /\ \A i \in 1..n : q[2 * i] \in {"Auto", "Property", "Life"}
    /\ pc = "SelectorReturned" =>
           ((selection_result.clarification_question # NoQuestion)
               <=> selection_result.needs_clarification)

C14_Witness ==
    /\ pc = "SelectorReturned"
    /\ Keys(user_policies) = <<"life", "auto", "property">>
    /\ Classified.classification = "AUTO"
    /\ selection_result.needs_clarification = TRUE
    /\ "Life" \in Range(selection_result.clarification_question)
    /\ "Property" \in Range(selection_result.clarification_question)

----------------------------------------------------------------------------
(* Properties of retrieve_relevant_clauses (specification SpecRetrieval) *)

\* The requested types the user has a document for, in request order
QueriedTypes ==
    LET present == {i \in 1..Len(types_to_query) : HasKey(user_policies, types_to_query[i])}
        order == SelectIdx(Len(types_to_query), present)
    IN  [p \in 1..Len(order) |-> types_to_query[order[p]]]

\* C7: every chunk retrieve_relevant_clauses returns comes from a document
\* user_policies[t] with t requested, and its policy_type is a requested type; a
\* requested type the user lacks contributes nothing and raises no error.
C7_ChunksWithinRequestedTypes ==
    /\ pc = "RetrievalReturned" =>
           \A i \in 1..Len(retrieved_chunks) :
               /\ \E t \in Range(QueriedTypes) :
                      retrieved_chunks[i].policy_file = Lookup(user_policies, t)
               /\ retrieved_chunks[i].policy_type \in Range(types_to_query)
    /\ (pc # "RetrievalCalled" /\ Len(QueriedTypes) = 0) =>
           pc = "RetrievalReturned" /\ Len(retrieved_chunks) = 0

\* The similarity of every chunk of every queried document, one entry per chunk
\* and per request of its type
RECURSIVE PoolOf(_)
PoolOf(types) ==
    IF Len(types) = 0 THEN <<>>
    ELSE LET doc == LoadPolicy(policies, Lookup(user_policies, Head(types)))
             q == NormalizeL2(Embed(BuildEnhancedQuery(question, scenario_details)))
         IN  [i \in 1..Len(doc) |-> 2 - SqDist(NormalizeL2(Embed(doc[i].text)), q)]
             \o PoolOf(Tail(types))

Pool == PoolOf(QueriedTypes)

CountAtLeast(sims, v) == Cardinality({i \in 1..Len(sims) : sims[i] >= v})

Min(a, b) == IF a <= b THEN a ELSE b

\* C8: retrieve_relevant_clauses returns the global top-k of the queried documents:
\* ordered by similarity, highest first, at most top_k long, and for every score v
\* it holds as many chunks scoring at least v as exist, up to top_k; so no chunk
\* left out scores strictly higher than one included.
C8_GlobalTopK ==
    pc = "RetrievalReturned" =>
        LET sims == [i \in 1..Len(retrieved_chunks) |-> retrieved_chunks[i].similarity]
        IN  /\ Len(sims) <= top_k
            /\ \A i \in 1..(Len(sims) - 1) : sims[i] >= sims[i + 1]
            /\ \A v \in -2..2 : CountAtLeast(sims, v) = Min(top_k, CountAtLeast(Pool, v))

\* The second document queried supplies the best chunk and the cutoff drops chunks
C8_Witness ==
    /\ pc = "RetrievalReturned"
    /\ Len(QueriedTypes) = 2
    /\ Len(Pool) > top_k
    /\ Len(retrieved_chunks) = top_k
    /\ retrieved_chunks[1].policy_file = Lookup(user_policies, QueriedTypes[2])
    /\ retrieved_chunks[1].policy_file # Lookup(user_policies, QueriedTypes[1])
    /\ retrieved_chunks[1].similarity > Pool[1]

----------------------------------------------------------------------------
(* Properties of PolicyRetriever.retrieve (specification SpecRetriever) *)

Matching(chunks, f) ==
    Cardinality({i \in 1..Len(chunks) : f = None \/ chunks[i].policy_type = f})

\* C9: retrieve returns exactly min(k, number of indexed chunks matching the filter)
\* results, and so at most k.
C9_ExactlyMinOfKAndMatching ==
    (pc = "Retrieved" /\ calls = <<"retrieve">>) =>
        Len(results) = Min(top_k, Matching(retriever.chunks, type_filter))

\* C16: a retrieve issued on a PolicyRetriever before a successful build_index
\* fails with the not-ready error and returns no list, empty or not; and the
\* retrieval agent queries a retriever only after its build_index has completed,
\* so its query never meets the not-ready error.
C16_NoQueryBeforeBuild ==
    /\ (calls = <<"retrieve">> /\ ~retriever.has_index) =>
           exc = "ValueError" /\ pc # "Retrieved"
    /\ pc = "TempQueried" =>
           /\ exc # "ValueError"
           /\ Called("retrieve") => (calls = <<"build_index", "retrieve">> /\ exc = None)

C16_Witness ==
    /\ pc = "RetrieverNew"
    /\ calls = <<"retrieve">>
    /\ exc = "ValueError"
    /\ ~retriever.has_index
    /\ results = <<>>

\* C17: every similarity in a result of retrieve lies in [0, 1] (0..2 in halves),
\* for every pair of normalized query and chunk vectors, opposite ones included;
\* a chunk whose vector is the query vector has similarity 1.
C17_SimilarityInUnitRange ==
    pc \in {"Retrieved", "TempQueried"} =>
        \A i \in 1..Len(results) :
            /\ results[i].similarity \in 0..2
            /\ NormalizeL2(Embed(results[i].text)) = NormalizeL2(Embed(<<question>>))
                   => results[i].similarity = 2

----------------------------------------------------------------------------
(* Properties of filter_by_section_type (specification SpecFilter) *)

ProducedByRetrieval(chunks) ==
    \A i \in 1..Len(chunks) :
        "chunk_type" \in DOMAIN chunks[i] /\ "similarity" \in DOMAIN chunks[i]

\* The clause category of a result: the chunker's chunk_type, or the section_type
\* the dict carries
Category(chunk) ==
    IF "chunk_type" \in DOMAIN chunk THEN chunk.chunk_type ELSE chunk.section_type

\* The entries of chunks whose category is wanted, in their order
WantedOf(chunks, wanted) ==
    LET keep == {i \in 1..Len(chunks) : Category(chunks[i]) \in wanted}
        order == SelectIdx(Len(chunks), keep)
    IN  [p \in 1..Len(order) |-> chunks[order[p]]]

\* C18: given results produced by retrieval and a non-empty set of wanted clause
\* categories that contains the category of at least one result,
\* filter_by_section_type returns exactly the results whose category is wanted,
\* in their original order.
C18_FilterKeepsWantedCategories ==
    (/\ pc = "Filtered"
     /\ ProducedByRetrieval(retrieved_chunks)
     /\ Len(section_types) > 0
     /\ \E i \in 1..Len(retrieved_chunks) :
            Category(retrieved_chunks[i]) \in Range(section_types)) =>
        results = WantedOf(retrieved_chunks, Range(section_types))

RECURSIVE IsSubList(_, _)
IsSubList(a, b) ==
    IF Len(a) = 0 THEN TRUE
    ELSE IF Len(b) = 0 THEN FALSE
    ELSE IF Head(a) = Head(b) THEN IsSubList(Tail(a), Tail(b))
    ELSE IsSubList(a, Tail(b))

\* No entry of the input has a wanted category, letter case aside
NothingWanted ==
    \A i \in 1..Len(retrieved_chunks) :
        Lower(Category(retrieved_chunks[i])) \notin
            {Lower(section_types[j]) : j \in 1..Len(section_types)}

\* C19: filter_by_section_type never returns an empty list for a non-empty input:
\* when no result matches the wanted categories, or none is wanted, the input is
\* returned unchanged; the output is always a sub-list of the input.
C19_FilterNeverEmpties ==
    pc = "Filtered" =>
        /\ Len(retrieved_chunks) > 0 => Len(results) > 0
        /\ (NothingWanted \/ Len(section_types) = 0) => results = retrieved_chunks
        /\ IsSubList(results, retrieved_chunks)

\* Two labelled dicts, neither of a wanted type: both come back
C19_Witness ==
    /\ pc = "Filtered"
    /\ section_types = <<"condition">>
    /\ Len(retrieved_chunks) = 2
    /\ \A i \in 1..2 : GetSectionType(retrieved_chunks[i]) \in {"coverage", "Exclusion"}
    /\ results = retrieved_chunks

----------------------------------------------------------------------------
(* Properties of _build_enhanced_query (specification SpecQuery) *)

\* C20: the enhanced query starts with the unmodified question, followed, each
\* after the separator " | ", by exactly those of asset, event, location, in that
\* order, that are present, non-empty and not "unknown"; with none of them it is
\* the question alone.
C20_EnhancedQueryShape ==
    pc = "QueryBuilt" =>
        LET fields == <<scenario_details.asset, scenario_details.event,
                        scenario_details.location>>
            labels == <<"Asset: ", "Event: ", "Location: ">>
            kept == {i \in 1..3 : fields[i] \notin {Absent, "", "unknown"}}
            order == SelectIdx(3, kept)
        IN  /\ Len(query_built) = 1 + 3 * Len(order)
            /\ query_built[1] = question
            /\ \A p \in 1..Len(order) :
                   /\ query_built[3 * p - 1] = " | "
                   /\ query_built[3 * p] = labels[order[p]]
                   /\ query_built[3 * p + 1] = fields[order[p]]
            /\ kept = {} => query_built = <<question>>

\* Asset unknown, event given, location missing: only the event is appended
C20_Witness ==
    /\ pc = "QueryBuilt"
    /\ scenario_details.asset = "unknown"
    /\ scenario_details.location = Absent
    /\ query_built = <<question, " | ", "Event: ", "theft">>

----------------------------------------------------------------------------
(* Properties of the policy loader (specification SpecLoader) *)

HeadingExclusion == Phrases(title_given) \cap {"exclusion", "not covered"} # {}
HeadingCoverage == Phrases(title_given) \cap {"coverage", "perils insured"} # {}
BodyExclusion ==
    TextPhrases(loaded_text) \cap {"not covered", "we do not cover", "excluded", "exclusion"}
        # {}
BodyCoverage ==
    TextPhrases(loaded_text) \cap {"we will pay", "we cover", "coverage includes"} # {}

\* C21: the category _determine_chunk_type returns is the first that matches, in the
\* order heading exclusion keyword, heading coverage keyword, body exclusion phrase,
\* body coverage phrase, general: a heading with both a coverage and an exclusion
\* keyword is an exclusion, and a coverage keyword in the heading wins over an
\* exclusion phrase that is only in the body.
C21_FirstMatchWins ==
    pc = "ChunkTypeDetermined" =>
        /\ HeadingExclusion => type_determined = "exclusion"
        /\ (~HeadingExclusion /\ HeadingCoverage) => type_determined = "coverage"
        /\ (~HeadingExclusion /\ ~HeadingCoverage /\ BodyExclusion)
               => type_determined = "exclusion"
        /\ (~HeadingExclusion /\ ~HeadingCoverage /\ ~BodyExclusion /\ BodyCoverage)
               => type_determined = "coverage"
        /\ (~HeadingExclusion /\ ~HeadingCoverage /\ ~BodyExclusion /\ ~BodyCoverage)
               => type_determined = "general"

\* A coverage heading over a body that holds an exclusion phrase came out as coverage
C21_Witness ==
    /\ pc = "ChunkTypeDetermined"
    /\ title_given = "Part D - Physical Damage Coverage"
    /\ BodyExclusion
    /\ type_determined = "coverage"

\* A heading line: a marker after a newline, or "## " as the first characters of the file
TopHeadingAt(i) == loaded_text[i] = H2 \/ (i = 1 /\ loaded_text[i] = "## ")

TopHeadings == {i \in 1..Len(loaded_text) : TopHeadingAt(i)}

FirstTopHeading ==
    IF TopHeadings = {} THEN Len(loaded_text) + 1
    ELSE CHOOSE i \in TopHeadings : \A h \in TopHeadings : i <= h

\* The text before the first top-level heading
HeaderText == SubSeq(loaded_text, 1, FirstTopHeading - 1)

\* The headings of the document, top-level and sub-level
Headings ==
    {i \in FirstTopHeading..Len(loaded_text) : TopHeadingAt(i) \/ loaded_text[i] = H3}

NthHeading(j) == CHOOSE i \in Headings : Cardinality({h \in Headings : h < i}) = j - 1

\* Where the part of the document under the heading at i ends
EndOfHeading(i) ==
    IF \E h \in Headings : h > i
    THEN (CHOOSE h \in Headings : h > i /\ \A g \in Headings : g > i => h <= g) - 1
    ELSE Len(loaded_text)

\* The part of the document under the heading at i, from its marker on, trimmed
HeadingText(i) ==
    LET marker == IF loaded_text[i] = H3 THEN "### " ELSE "## "
    IN  Strip(<<marker>> \o SubSeq(loaded_text, i + 1, EndOfHeading(i)))

ParentHeading(i) == CHOOSE p \in TopHeadings : p < i /\ \A h \in TopHeadings : h < i => h <= p

HasHeaderText == Strip(HeaderText) # <<>>

\* C22: load_policy partitions a non-empty document by its headings without gaps: the
\* text before the first top-level heading, when there is any, is the first chunk,
\* named "Policy Header" and general; after it there is exactly one chunk per
\* top-level or sub-level heading, in document order, holding the text from that
\* heading up to the next one; a sub-heading chunk is named "{parent} - {child}";
\* no chunk has an empty text.
C22_PartitionByHeadings ==
    (pc = "PolicyLoaded" /\ loaded_text # <<>>) =>
        LET hdr == IF HasHeaderText THEN 1 ELSE 0
            n == Cardinality(Headings)
        IN  /\ Len(loaded_chunks) = hdr + n
            /\ HasHeaderText =>
                  /\ loaded_chunks[1].text = Strip(HeaderText)
                  /\ loaded_chunks[1].section_name = "Policy Header"
                  /\ loaded_chunks[1].chunk_type = "general"
            /\ \A j \in 1..n :
                  LET i == NthHeading(j)
                      chunk == loaded_chunks[hdr + j]
                  IN  /\ chunk.text = HeadingText(i)
                      /\ chunk.section_name # "Policy Header"
                      /\ loaded_text[i] = H3 =>
                             chunk.section_name =
                                 loaded_text[ParentHeading(i) + 1] \o " - "
                                     \o loaded_text[i + 1]
            /\ \A k \in 1..Len(loaded_chunks) : loaded_chunks[k].text # <<>>

NoHeadingMarkers ==
    \A i \in 1..Len(loaded_text) : loaded_text[i] \notin {H2, H3, "## ", "### "}

\* C23: load_policy never returns an empty chunk list for a non-empty document, and
\* for a document without heading markers it returns exactly one chunk, general,
\* that spans the full text.
C23_NeverEmptyForNonEmptyInput ==
    (pc = "PolicyLoaded" /\ loaded_text # <<>>) =>
        /\ loaded_chunks # <<>>
        /\ NoHeadingMarkers =>
              /\ Len(loaded_chunks) = 1
              /\ loaded_chunks[1].chunk_type = "general"
              /\ loaded_chunks[1].text = Strip(loaded_text)

\* The heading line a chunk starts with
OwnHeading(chunk) ==
    IF Len(chunk.text) >= 2 /\ chunk.text[1] \in {"## ", "### "} THEN chunk.text[2] ELSE ""

\* C26: every chunk load_policy makes under a heading (a whole section, a section
\* intro or a sub-heading chunk) carries the category that the priority
\* classification gives for that chunk's own heading and own text.
C26_ClassifiedPerChunk ==
    pc = "PolicyLoaded" =>
        \A k \in 1..Len(loaded_chunks) :
            loaded_chunks[k].section_name # "Policy Header" =>
                loaded_chunks[k].chunk_type =
                    DetermineChunkType(OwnHeading(loaded_chunks[k]), loaded_chunks[k].text)

----------------------------------------------------------------------------
(* Further properties of process_question (specification Spec) *)

\* Where a reference first appears among the retrieved chunks
FirstCited(ref) ==
    CHOOSE j \in 1..Len(retrieved_chunks) :
        /\ SectionRef(retrieved_chunks[j]) = ref
        /\ \A i \in 1..(j - 1) : SectionRef(retrieved_chunks[i]) # ref

\* C24: the policy_references of every response hold no duplicate and at most five
\* entries, each the reference of a retrieved chunk, in the order in which they first
\* appear among the retrieved chunks, which are in descending similarity; they are
\* empty when the request ends in ClarificationNeeded or EmptyResult.
C24_ReferencesDistinctInOrder ==
    /\ pc \in {"ClarificationNeeded", "EmptyResult"} => response.policy_references = <<>>
    /\ pc = "Done" =>
          LET refs == response.policy_references
          IN  /\ NoDuplicates(refs)
              /\ Len(refs) <= 5
              /\ \A p \in 1..Len(refs) :
                     \E j \in 1..Len(retrieved_chunks) :
                         refs[p] = SectionRef(retrieved_chunks[j])
              /\ \A p \in 1..Len(refs), q \in 1..Len(refs) :
                     p < q => FirstCited(refs[p]) < FirstCited(refs[q])
              /\ \A j \in 1..Len(retrieved_chunks) :
                     j <= 5 => SectionRef(retrieved_chunks[j]) \in Range(refs)
              /\ \A j \in 1..(Len(retrieved_chunks) - 1) :
                     retrieved_chunks[j].similarity >= retrieved_chunks[j + 1].similarity

\* Two chunks of one section and a chunk of another were retrieved, and cited twice
C24_Witness ==
    /\ pc = "Done"
    /\ Len(retrieved_chunks) = 3
    /\ SectionRef(retrieved_chunks[1]) = SectionRef(retrieved_chunks[2])
    /\ Len(response.policy_references) = 2
    /\ response.policy_references[1] = SectionRef(retrieved_chunks[1])
    /\ response.policy_references[2] = SectionRef(retrieved_chunks[3])

StageHeaders ==
    <<"Agent 2: Interpreting scenario...", "Agent 1: Selecting policies...",
      "Agent 3: Retrieving relevant policy clauses...", "Agent 4: Generating explanation...">>

IsStageHeader(e) == e.msg \in Range(StageHeaders)

IsStageCall(m) == m # "classify"

Outcome(p, e, r) == [pc |-> p, exc |-> e, response |-> r]

\* How a request ends, as a function of its arguments, the policy files and what the
\* three language-model services answered
RequestOutcome(q, up, fs, answered) ==
    LET sd == Interpret(answered.interpreter)
        available_types == Keys(up)
        sel == IF Len(available_types) = 1 THEN SelectSingle(available_types)
               ELSE SelectClassified(available_types, Classify(answered.classifier))
        got == RetrieveRelevantClauses(fs, q, sd, up, sel.policies_to_query, TopK)
        ans == GenerateResponse(got.results, sel.policies_to_query, answered.synthesizer)
    IN  IF sd.json # "object" THEN Outcome("Raised", "TypeError", NoResponse)
        ELSE IF Absent \in {sd.asset, sd.event, sd.location}
        THEN Outcome("Raised", "KeyError", NoResponse)
        ELSE IF sel.raised # None THEN Outcome("Raised", sel.raised, NoResponse)
        ELSE IF sel.needs_clarification
        THEN Outcome("ClarificationNeeded", None, ClarificationResponse(sel))
        ELSE IF got.raised # None THEN Outcome("Raised", got.raised, NoResponse)
        ELSE IF Len(got.results) = 0 THEN Outcome("EmptyResult", None, EmptyResponse)
        ELSE IF ans.raised # None THEN Outcome("Raised", ans.raised, NoResponse)
        ELSE Outcome("Done", None, Response(ans.response, FALSE, NoQuestion))

\* C25: the orchestrator keeps nothing from one call to the next: whatever calls came
\* before, the outcome of a call is a function of its arguments, the policy files and
\* the services' answers; the shared retriever the orchestrator's agents hold is as
\* it was built at start-up; and the trace starts empty and holds the stage headers
\* of this call only, one per stage that ran, in stage order.
C25_NoStateAcrossCalls ==
    /\ retriever = SharedRetriever(policies)
    /\ pc = "Interpreting" => agent_trace = <<>>
    /\ pc \notin {"Idle", "Raised"} =>
           LET headers == SelectSeq(agent_trace, IsStageHeader)
               stages == SelectSeq(calls, IsStageCall)
           IN  /\ Len(headers) = Len(stages)
               /\ \A i \in 1..Len(headers) : headers[i].msg = StageHeaders[i]
    /\ pc \in Terminal =>
           Outcome(pc, exc, response) = RequestOutcome(question, user_policies, policies, raws)

\* The second request of one orchestrator was answered
C25_Witness ==
    /\ pc = "Done"
    /\ served = 2
    /\ Len(agent_trace) = 8
    /\ Len(user_policies) = 1
    /\ question = "Is flood damage covered?"
    /\ raws.classifier = NoRaw
    /\ response.coverage_result = "Yes"

\* C28: process_question takes the clarification branch exactly when the selector's
\* result has needs_clarification = true; the needs_clarification flag of the
\* interpreter's scenario details, the true default after an unparsable answer
\* included, neither causes nor prevents it: a user with a single policy goes on to
\* Retrieving whatever the interpreter said.
C28_ClarificationFollowsSelector ==
    /\ SelectorReturned =>
           ((pc = "ClarificationNeeded") <=> selection_result.needs_clarification)
    /\ pc = "ClarificationNeeded" => SelectorReturned
    /\ (SelectorReturned /\ Len(user_policies) = 1) =>
           /\ pc \in {"Retrieving", "Synthesizing", "EmptyResult", "Done", "Raised"}
           /\ pc = "Raised" => Called("retrieve_relevant_clauses")

\* A single-policy user whose question the interpreter could not parse is at Retrieving
C28_Witness ==
    /\ pc = "Retrieving"
    /\ Len(user_policies) = 1
    /\ scenario_details = DefaultScenario
    /\ ~raws.interpreter.valid
    /\ ~selection_result.needs_clarification

\* C29: a request with an empty user_policies that reaches selection is not cut short
\* there: the classifier is asked, policies_to_query is empty, and the request ends in
\* ClarificationNeeded (classification ambiguous or unrecognized) or in EmptyResult
\* (any other classification); the synthesizer is never asked and no exception is
\* raised.
C29_EmptyPoliciesEndWithoutAnswer ==
    (Len(user_policies) = 0 /\ pc \in Terminal /\ Called("select_policies")) =>
        /\ Called("classify")
        /\ selection_result.policies_to_query = <<>>
        /\ pc = IF selection_result.classification.classification
                       \in {"auto", "property", "both"}
                THEN "EmptyResult" ELSE "ClarificationNeeded"
        /\ ~Called("generate_response")
        /\ exc = None

----------------------------------------------------------------------------
(* Further properties of the retriever (specification SpecRetriever) *)

\* C30: after any sequence of build_index calls, a failed rebuild included, a
\* retriever whose index is set has as many vectors as stored chunks, and the vector
\* at position i is the embedding of chunk i: chunks and index are replaced together.
C30_IndexMatchesChunks ==
    retriever.has_index =>
        /\ Len(retriever.index) = Len(retriever.chunks)
        /\ \A i \in 1..Len(retriever.chunks) :
               retriever.index[i] = NormalizeL2(Embed(retriever.chunks[i].text))

----------------------------------------------------------------------------
(* Properties of concurrent retrievals (specification SpecConcurrent) *)

\* The files of the user a call is made for
FilesOf(th) == {th.user_policies[i].file : i \in 1..Len(th.user_policies)}

\* C27: under any interleaving of retrieve_relevant_clauses calls on one agent, the
\* retriever the agent shares is never written; the retriever a call queries holds
\* that call's own chunks, is written by that call only and is completely built when
\* it is queried; every chunk a call holds or returns is of its own user's files; and
\* a call returns what it returns when it runs alone.
C27_IndexIsRequestScoped ==
    /\ retriever = SharedRetriever(policies)
    /\ \A t \in Callers :
          LET th == threads[t]
              own == th.user_chunks
          IN  /\ th.pc = "Constructed" => temp_retrievers[t] = NewRetriever
              /\ th.pc = "ChunksSet" =>
                     temp_retrievers[t] = [NewRetriever EXCEPT !.chunks = own]
              /\ th.pc = "IndexCreated" =>
                     temp_retrievers[t] = [chunks |-> own, has_index |-> TRUE,
                                           index |-> <<>>]
              /\ th.pc = "IndexBuilt" =>
                     /\ temp_retrievers[t].chunks = own
                     /\ temp_retrievers[t].has_index
                     /\ Len(temp_retrievers[t].index) = Len(own)
                     /\ \A i \in 1..Len(own) :
                            temp_retrievers[t].index[i] = NormalizeL2(Embed(own[i].text))
              /\ \A i \in 1..Len(own) : own[i].policy_file \in FilesOf(th)
              /\ \A i \in 1..Len(th.all_retrieved) :
                     th.all_retrieved[i].policy_file \in FilesOf(th)
              /\ th.pc \in {"Returned", "Raised"} =>
                     LET alone == RetrieveRelevantClauses(policies, question,
                                      scenario_details, th.user_policies,
                                      th.policy_types_to_query, top_k)
                     IN  /\ th.raised = alone.raised
                         /\ th.pc = "Returned" => th.results = alone.results

\* An auto user's call is about to query its index while a property user's call is
\* in the middle of building its own
C27_Witness ==
    /\ threads["call_1"].pc = "IndexBuilt"
    /\ threads["call_2"].pc = "IndexCreated"
    /\ threads["call_1"].user_policies[1].file = "auto_policy_1.md"
    /\ Len(threads["call_1"].user_policies) = 1
    /\ threads["call_2"].user_policies[1].file = "property_policy_1.md"
    /\ threads["call_1"].user_chunks # threads["call_2"].user_chunks

====
